---- MODULE Spec2Model ----
(***************************************************************************)
(* A state-machine model of goyang_client.py: the reservation workflow     *)
(* that main() drives through one browser session (launch, login,          *)
(* reservation, order-id extraction, payment trigger, popup detection,     *)
(* optional confirmation wait, teardown), together with the browser        *)
(* session's windows, which the pages and the user open, navigate and      *)
(* close while the run is polling them.                                    *)
(***************************************************************************)
EXTENDS Integers, Sequences, FiniteSets, TLC

(* ----------------------------- bounds ---------------------------------- *)
\* number of windows the pages may open besides the main window
MaxPopups == 1
\* number of windows the pages may open when the popup wait is run on its own
MaxPollPopups == 2
\* largest --timeout value, in clock ticks of half a second
MaxTimeout == 2
\* largest --order-wait-timeout value, in seconds
MaxOrderWait == 1
\* largest timeout argument of a browser_fetch call looked into, in ticks
MaxFetchTimeout == 3
\* largest number of start tags in a document given to extract_order_id
MaxTags == 2

(* --------------------------- constants --------------------------------- *)
None == "None"
\* result.get("status") of a result that carries no status
NoStatus == -1
\* main has not returned
NoExit == -1
\* time.sleep(0.5) and time.sleep(1), in clock ticks of half a second
PopupSleepTicks == 1
OrderSleepTicks == 2
TicksPerSecond == 2
\* milliseconds in a clock tick
MsPerTick == 500
\* the floor of the abort timer: max(int(timeout * 1000), 1000)
MinTimerMs == 1000

LOGIN_URL == "https://www.gytennis.or.kr/Login"
DAILY_URL == "https://www.gytennis.or.kr/daily"
PAYMENT_POP_URL == "https://spay.kcp.co.kr/kcpPaypop.do?encType="
ORDER_RESULT_URL == "https://www.gytennis.or.kr/ordrRst"
BLANK_URL == "about:blank"
TARGET_NAME == "KCPPayPopup"

Urls == {LOGIN_URL, DAILY_URL, PAYMENT_POP_URL, ORDER_RESULT_URL, BLANK_URL}

\* "spay.kcp.co.kr" in current_url
ContainsKcpHost(url) == url = PAYMENT_POP_URL
\* a confirmation test that takes any gateway or site URL but a blank page
ContainsOrdrRstLoose(url) == url # BLANK_URL /\ url # DAILY_URL

\* "ordrRst" in current_url
ContainsOrdrRst(url) == url = ORDER_RESULT_URL

Stages ==
    << "Launch", "Authenticate", "Reserve", "ExtractOrderId", "RenderReservation",
       "InjectPaymentFields", "TriggerPayment", "AwaitPopup", "AwaitConfirmation",
       "Teardown" >>

(* ------------------------- HTML documents ------------------------------ *)
\* A document is the sequence of its start tags; a tag is its raw name and
\* its attributes as (name, value) pairs in source order.
Attr(k, v) == << k, v >>

TagOrd1 == [tag |-> "input",
            attrs |-> << Attr("type", "hidden"), Attr("name", "ordr_idxx"), Attr("value", "ORD1") >>]
TagOrd2 == [tag |-> "INPUT",
            attrs |-> << Attr("NAME", "ordr_idxx"), Attr("id", "o"), Attr("VALUE", "ORD2") >>]
TagNoValue == [tag |-> "input", attrs |-> << Attr("name", "ordr_idxx") >>]
TagEmptyValue == [tag |-> "input", attrs |-> << Attr("name", "ordr_idxx"), Attr("value", "") >>]
TagOtherInput == [tag |-> "input", attrs |-> << Attr("name", "good_mny"), Attr("value", "4000") >>]
TagForm == [tag |-> "form", attrs |-> << Attr("name", "ordr_idxx"), Attr("value", "ORD3") >>]
TagUpperName == [tag |-> "input", attrs |-> << Attr("name", "ORDR_IDXX"), Attr("value", "ORD4") >>]
Tags == {TagOrd1, TagOrd2, TagNoValue, TagEmptyValue, TagOtherInput, TagForm, TagUpperName}

\* str.lower() on the tag and attribute names of the documents above
Lower(s) ==
    CASE s = "INPUT" -> "input"
      [] s = "NAME" -> "name"
      [] s = "VALUE" -> "value"
      [] OTHER -> s

\* normalized = {k.lower(): v for k, v in attrs}; normalized.get(key)
RECURSIVE NormalizedGet(_, _)
NormalizedGet(attrs, key) ==
    IF attrs = << >> THEN None
    ELSE LET last == attrs[Len(attrs)]
         IN  IF Lower(last[1]) = key THEN last[2]
             ELSE NormalizedGet(SubSeq(attrs, 1, Len(attrs) - 1), key)

\* handle_starttag comparing the raw tag name
handle_starttag_case_sensitive(order_id_before, tag) ==
    IF tag.tag # "input" THEN order_id_before
    ELSE IF NormalizedGet(tag.attrs, "name") = "ordr_idxx"
         THEN NormalizedGet(tag.attrs, "value")
         ELSE order_id_before

\* handle_starttag without the check of the tag name
handle_starttag_any_tag(order_id_before, tag) ==
    IF NormalizedGet(tag.attrs, "name") = "ordr_idxx"
    THEN NormalizedGet(tag.attrs, "value")
    ELSE order_id_before

\* handle_starttag that keeps an order id once it has a non-empty one
handle_starttag_first_wins(order_id_before, tag) ==
    IF order_id_before # None /\ order_id_before # "" THEN order_id_before
    ELSE IF Lower(tag.tag) # "input" THEN order_id_before
    ELSE IF NormalizedGet(tag.attrs, "name") = "ordr_idxx"
         THEN NormalizedGet(tag.attrs, "value")
         ELSE order_id_before

\* OrderIdParser.handle_starttag: the new self.order_id
handle_starttag(order_id_before, tag) ==
    IF Lower(tag.tag) # "input" THEN order_id_before
    ELSE IF NormalizedGet(tag.attrs, "name") = "ordr_idxx"
         THEN NormalizedGet(tag.attrs, "value")
         ELSE order_id_before

\* OrderIdParser.feed: handle_starttag on every start tag, in document order
RECURSIVE ParserFeed(_, _)
ParserFeed(order_id_before, html) ==
    IF html = << >> THEN order_id_before
    ELSE ParserFeed(handle_starttag(order_id_before, Head(html)), Tail(html))

\* extract_order_id: the order id, or None when ValueError is raised
extract_order_id(html) ==
    LET parsed == ParserFeed(None, html)
    IN  IF parsed = None \/ parsed = "" THEN None ELSE parsed

\* the reservation pages the site answers with in the workflow runs
ReservationPages ==
    { << TagOtherInput, TagOrd1 >>,
      << TagOrd2 >>,
      << TagForm, TagOtherInput >>,
      << TagEmptyValue >> }

(* ---------------------- in-session requests ---------------------------- *)
Statuses == {0, 200, 400, 500}

\* What driver.execute_async_script hands back to browser_fetch:
\*   kind "status": done({status, text});  kind "error": done({error});
\*   kind "nondict": a result that is no dict;
\*   kind "script_timeout": execute_async_script raised: done was not called
\*   within the script timeout, or the script threw, or its page went away.
JsResult(kind, status, text, error) ==
    [kind |-> kind, status |-> status, text |-> text, error |-> error]

FetchOutcomes(pages) ==
    { JsResult("status", s, t, "") : s \in Statuses, t \in pages }
        \cup { JsResult("error", NoStatus, << >>, e) : e \in {"", "AbortError"} }
        \cup { JsResult("nondict", NoStatus, << >>, ""),
               JsResult("script_timeout", NoStatus, << >>, "") }

\* browser_fetch after execute_async_script: the exception it raises, or "none"
browser_fetch_raises(js) ==
    CASE js.kind = "script_timeout" -> "WebDriverException"
      [] js.kind = "nondict" -> "Exception"
      [] js.kind = "error" /\ js.error # "" -> "Exception"
      [] OTHER -> "none"

\* ensure_success with `> 400` for `>= 400`
ensure_success_gt(result) ==
    ~ (result.status = NoStatus \/ result.status = 0 \/ result.status > 400)

\* a missing status let through
ensure_success_missing_ok(result) == ~ (result.status = 0 \/ result.status >= 400)

\* a status of 0 let through
ensure_success_zero_ok(result) == ~ (result.status = NoStatus \/ result.status >= 400)

\* ensure_success: TRUE when it returns, FALSE when it raises RuntimeError
ensure_success(result) ==
    ~ (result.status = NoStatus \/ result.status = 0 \/ result.status >= 400)

(* ------------------------- payment trigger ----------------------------- *)
\* The rendered reservation page as the trigger script sees it: each global
\* alias is absent, callable, or throws when called; each clickable element
\* has an onclick text that contains "pay" or not, and a click that works or
\* throws.
AliasStates == {"absent", "ok", "throws"}
Clickables ==
    { << >>,
      << [pay |-> TRUE, click |-> "ok"] >>,
      << [pay |-> TRUE, click |-> "throws"] >>,
      << [pay |-> FALSE, click |-> "ok"] >>,
      << [pay |-> FALSE, click |-> "ok"], [pay |-> TRUE, click |-> "ok"] >> }
TriggerPages ==
    [fnPay : AliasStates, fn_pay : AliasStates, pay : AliasStates, clickable : Clickables]

\* candidates[0]: the first alias that is a function, or null
TriggerCandidate(page) ==
    IF page.fnPay # "absent" THEN page.fnPay
    ELSE IF page.fn_pay # "absent" THEN page.fn_pay
    ELSE page.pay

RECURSIVE TriggerClick(_)
TriggerClick(els) ==
    IF els = << >> THEN "notfound"
    ELSE IF Head(els).pay
         THEN (IF Head(els).click = "ok" THEN "click" ELSE "error:")
         ELSE TriggerClick(Tail(els))

\* the value the trigger script returns
trigger_script(page) ==
    IF TriggerCandidate(page) = "ok" THEN "function"
    ELSE IF TriggerCandidate(page) = "throws" THEN "error:"
    ELSE TriggerClick(page.clickable)

(* ----------------------------- state ----------------------------------- *)
VARIABLES
    \* command-line arguments
    keep_browser_open, skip_order_wait, timeout, order_wait_timeout,
    \* main: position, pending exception, locals
    pc, exc, driver, order_id, payment_result, order_result_url,
    payment_handle, main_window_handle, login_result, reservation_response,
    existing_handles, trigger_result, exit_status,
    \* wait_for_payment_window / await_order_result locals
    deadline, target_handle, current_handles, idx, detected_url, target,
    window_name,
    \* WebDriverWait.until: the time after which the wait gives up
    end_time,
    \* the browser session
    session, handles, cur, wname, wurl, opened, quit_calls,
    \* wall clock, in ticks
    now,
    \* what the latest step of main printed, and the exception it raised
    printed, raised,
    \* history: stages entered, where the fatal exception was raised
    trace, failed,
    \* one browser_fetch call seen from inside: the timeout argument, the page's
    \* clock, the abort timer, the fetch promise, the calls of done, and what
    \* browser_fetch hands to its caller
    f_timeout, f_clock, f_timer, f_fetch, f_done, f_result,
    \* one call of a function of the module: its name, argument and outcome
    fn, fn_arg, fn_out,
    \* the audit log of one run: the module global CURL_LOG_FILE, the log file
    \* on disk now and before the run, the browser_fetch calls issued so far
    \* (command and outcome of its write), and the position of the run
    CURL_LOG_FILE, log_file, log_before, issued, log_pc,
    \* the GUI window: its fields _scheduled_timer and _process, whether its
    \* two buttons are enabled, the dialog its latest handler showed, its log
    \* view, and the timers and client processes it has created
    scheduled_timer, process, schedule_button, cancel_button, dialog, log_view,
    timers, procs

argvars == << keep_browser_open, skip_order_wait, timeout, order_wait_timeout >>
mainvars == << pc, exc, driver, order_id, payment_result, order_result_url,
               payment_handle, main_window_handle, login_result,
               reservation_response, existing_handles, trigger_result, exit_status >>
loopvars == << deadline, target_handle, current_handles, idx, detected_url, target,
               window_name >>
pollvars == << loopvars, end_time >>
sessvars == << session, handles, cur, wname, wurl, opened, quit_calls >>
stepvars == << printed, raised >>
histvars == << trace, failed >>
progvars == << argvars, mainvars, pollvars, sessvars, now, stepvars, histvars >>
fetchvars == << f_timeout, f_clock, f_timer, f_fetch, f_done, f_result >>
callvars == << fn, fn_arg, fn_out >>
logvars == << CURL_LOG_FILE, log_file, log_before, issued, log_pc >>
guivars == << scheduled_timer, process, schedule_button, cancel_button, dialog,
             log_view, timers, procs >>
auxvars == << fetchvars, callvars, logvars, guivars >>
vars == << progvars, auxvars >>

MAIN_HANDLE == "w0"
HandleOf(n) == "w" \o ToString(n)
AllHandles ==
    { HandleOf(n) : n \in 0..(IF MaxPollPopups > MaxPopups THEN MaxPollPopups ELSE MaxPopups) }

NoResult == JsResult("none", NoStatus, << >>, "")
NoFailure == [stage |-> "none", cause |-> "none"]
NoRaise == [stage |-> "none", kind |-> "none", cause |-> "none", caught |-> FALSE]

\* browser_fetch has neither returned nor raised
NoFetchResult == [kind |-> "none", exc |-> "none", value |-> NoResult]

\* no browser_fetch call is looked into
NoFetch ==
    /\ f_timeout = 0
    /\ f_clock = 0
    /\ f_timer = "none"
    /\ f_fetch = "none"
    /\ f_done = << >>
    /\ f_result = NoFetchResult

\* no function is called on its own
NoCall ==
    /\ fn = "none"
    /\ fn_arg = None
    /\ fn_out = None

\* the most schedule requests the GUI accepts in a run of the model
MaxSchedules == 2
ScheduleIds == 1..MaxSchedules

\* self._scheduled_timer = None (line 74): no timer is referred to
NoTimer == 0

\* self._process = None (line 75): no process is referred to
NoProcess == 0

\* ReservationWindow.__init__ (lines 74-75, 132-138): no timer, no process,
\* the schedule button enabled and the cancel button disabled
NoGui ==
    /\ scheduled_timer = NoTimer
    /\ process = NoProcess
    /\ schedule_button = TRUE
    /\ cancel_button = FALSE
    /\ dialog = "none"
    /\ log_view = << >>
    /\ timers = [t \in ScheduleIds |-> "unused"]
    /\ procs = [t \in ScheduleIds |-> "none"]

\* the audit log is left alone
NoFile == [exists |-> FALSE, text |-> ""]
NoLog ==
    /\ CURL_LOG_FILE = None
    /\ log_file = NoFile
    /\ log_before = NoFile
    /\ issued = << >>
    /\ log_pc = "none"

\* main's arguments and locals at its first statement, no session yet
ProgInit ==
    /\ keep_browser_open \in BOOLEAN
    /\ skip_order_wait \in BOOLEAN
    /\ timeout \in {0, MaxTimeout}
    /\ order_wait_timeout \in IF skip_order_wait THEN {MaxOrderWait} ELSE {0, MaxOrderWait}
    /\ pc = "launch"
    /\ exc = "none"
    /\ driver = FALSE
    /\ order_id = None
    /\ payment_result = None
    /\ order_result_url = None
    /\ payment_handle = None
    /\ main_window_handle = None
    /\ login_result = NoResult
    /\ reservation_response = NoResult
    /\ existing_handles = << >>
    /\ trigger_result = None
    /\ exit_status = NoExit
    /\ deadline = 0
    /\ target_handle = None
    /\ current_handles = << >>
    /\ idx = 0
    /\ detected_url = None
    /\ target = None
    /\ window_name = ""
    /\ end_time = 0
    /\ session = "none"
    /\ handles = << >>
    /\ cur = None
    /\ wname = [h \in AllHandles |-> ""]
    /\ wurl = [h \in AllHandles |-> BLANK_URL]
    /\ opened = 0
    /\ quit_calls = 0
    /\ now = 0
    /\ printed = << >>
    /\ raised = NoRaise
    /\ trace = << >>
    /\ failed = NoFailure

Init ==
    /\ NoFetch
    /\ NoCall
    /\ NoGui
    /\ NoLog
    /\ ProgInit

(* ------------------------ session operations --------------------------- *)
Range(seq) == { seq[i] : i \in 1..Len(seq) }
Remove(seq, h) == SelectSeq(seq, LAMBDA x : x # h)

SessionUp == session = "open"
\* handle in driver.window_handles; switch_to.window(handle) works
WindowOpen(h) == SessionUp /\ h \in Range(handles)
\* execute_script / current_url work in the current window
CurUsable == WindowOpen(cur)

(* --------------------- main: control-flow helpers ---------------------- *)
\* the line main's except clauses print (lines 927-932)
ExceptLine(kind) ==
    IF kind = "WebDriverException"
    THEN << "stderr", "Browser automation failed", kind >>
    ELSE << "stderr", "Failed to complete workflow", kind >>

\* a failed reservation goes back to the login instead of ending the run
FailRetriesLogin(stage, kind, cause) ==
    /\ exc' = IF stage = "Reserve" THEN exc ELSE kind
    /\ failed' = IF stage = "Reserve" THEN failed ELSE [stage |-> stage, cause |-> cause]
    /\ raised' = [stage |-> stage, kind |-> kind, cause |-> cause, caught |-> stage = "Reserve"]
    /\ printed' = << ExceptLine(kind) >>
    /\ pc' = IF stage = "Reserve" THEN "login" ELSE "teardown"

\* an exception of class `kind` raised in `stage` reaches main's handlers
Fail(stage, kind, cause) ==
    /\ exc' = kind
    /\ failed' = [stage |-> stage, cause |-> cause]
    /\ raised' = [stage |-> stage, kind |-> kind, cause |-> cause, caught |-> FALSE]
    /\ printed' = << ExceptLine(kind) >>
    /\ pc' = "teardown"

\* the step raised nothing and printed nothing
Go(next) ==
    /\ pc' = next
    /\ raised' = NoRaise
    /\ printed' = << >>
    /\ UNCHANGED << exc, failed >>

\* an exception of class `kind` raised in `stage` is caught there; the run
\* prints `line` and goes on
Caught(stage, kind, cause, line, next) ==
    /\ pc' = next
    /\ raised' = [stage |-> stage, kind |-> kind, cause |-> cause, caught |-> TRUE]
    /\ printed' = line
    /\ UNCHANGED << exc, failed >>

\* the `except Exception` clause without its `return 1`
ExitStatusFallsThrough(e) == IF e = "WebDriverException" THEN 1 ELSE 0

\* main's return value: 1 from either except clause, 0 at the end
ExitStatus(e) == IF e = "none" THEN 0 ELSE 1

\* driver.quit() at the end of the try body instead of in finally
TeardownQuitsOnSuccess == driver /\ ~ keep_browser_open /\ exc = "none"

\* a finally clause that does not test driver
TeardownQuitsWithoutDriver == ~ keep_browser_open

\* finally: if driver and not args.keep_browser_open
TeardownQuits == driver /\ ~ keep_browser_open

\* no except clause around wait_for_payment_window
PopupCaughtNothing(kind) == FALSE

\* except TimeoutError around wait_for_payment_window (line 913)
PopupCaught(kind) == kind = "TimeoutError"

\* `except WebDriverException` for `except TimeoutException`
RenderWaitCaughtAnyDriverError(kind) == kind \in {"TimeoutException", "WebDriverException"}

\* except TimeoutException around the ordr_idxx element wait (line 848)
RenderWaitCaught(kind) == kind = "TimeoutException"

\* the confirmation wait entered whatever the flag
EntersOrderWaitAlways == TRUE

\* if not args.skip_order_wait (line 916)
EntersOrderWait == ~ skip_order_wait

(* --------------------------- main: stages ------------------------------ *)
\* driver = launch_browser(...) (lines 791-796): a session with one window
Launch ==
    /\ UNCHANGED auxvars
    /\ pc = "launch"
    /\ trace' = Append(trace, "Launch")
    /\ \E outcome \in {"ok", "launch_error"} :
         IF outcome = "launch_error"
         THEN /\ Fail("Launch", "Exception", "launch_browser")
              /\ UNCHANGED << driver, session, handles, cur >>
         ELSE /\ driver' = TRUE
              /\ session' = "open"
              /\ handles' = << MAIN_HANDLE >>
              /\ cur' = MAIN_HANDLE
              /\ Go("launch_get")
    /\ UNCHANGED << argvars, order_id, payment_result, order_result_url, payment_handle,
                    main_window_handle, login_result, reservation_response,
                    existing_handles, trigger_result, exit_status, pollvars, wname, wurl,
                    opened, quit_calls, now >>

\* driver.get(url) in the current window, which then shows url, on to `next`
NavigateTo(stage, url, next) ==
    IF ~ CurUsable
    THEN /\ Fail(stage, "WebDriverException", "session")
         /\ UNCHANGED wurl
    ELSE \E loaded \in BOOLEAN :
           IF ~ loaded
           THEN /\ Fail(stage, "WebDriverException", "driver.get")
                /\ UNCHANGED wurl
           ELSE /\ wurl' = [wurl EXCEPT ![cur] = url]
                /\ Go(next)

\* driver.get(args.browser_url) (line 797)
LaunchGet ==
    /\ UNCHANGED auxvars
    /\ pc = "launch_get"
    /\ NavigateTo("Launch", LOGIN_URL, "launch_handle")
    /\ UNCHANGED main_window_handle
    /\ UNCHANGED << argvars, driver, order_id, payment_result, order_result_url,
                    payment_handle, login_result, reservation_response,
                    existing_handles, trigger_result, exit_status, pollvars, session,
                    handles, cur, wname, opened, quit_calls, now, trace >>

\* the values of --cookie: not given, given without a name=value pair, given
\* with pairs
CookieArgs == {"", ";", "a=b"}

\* main_window_handle = driver.current_window_handle (line 798) and the
\* test of args.cookie (line 800); parse_cookie_header keeps the chunks that
\* hold an equals sign
LaunchHandle ==
    /\ UNCHANGED auxvars
    /\ pc = "launch_handle"
    /\ IF ~ CurUsable
       THEN /\ Fail("Launch", "WebDriverException", "session")
            /\ UNCHANGED main_window_handle
       ELSE /\ main_window_handle' = cur
            /\ \E cookie \in CookieArgs :
                 Go(IF cookie = "" THEN "login"
                    ELSE IF cookie = ";" THEN "launch_reload" ELSE "launch_cookie")
    /\ UNCHANGED wurl
    /\ UNCHANGED << argvars, driver, order_id, payment_result, order_result_url,
                    payment_handle, login_result, reservation_response,
                    existing_handles, trigger_result, exit_status, pollvars, session,
                    handles, cur, wname, opened, quit_calls, now, trace >>

\* driver.add_cookie({...}) for a pair of the cookie header (lines 801-802)
LaunchCookie ==
    /\ UNCHANGED auxvars
    /\ pc = "launch_cookie"
    /\ IF ~ CurUsable
       THEN Fail("Launch", "WebDriverException", "session")
       ELSE \E added \in BOOLEAN :
              IF added THEN Go("launch_reload")
              ELSE Fail("Launch", "WebDriverException", "add_cookie")
    /\ UNCHANGED << main_window_handle, wurl >>
    /\ UNCHANGED << argvars, driver, order_id, payment_result, order_result_url,
                    payment_handle, login_result, reservation_response,
                    existing_handles, trigger_result, exit_status, pollvars, session,
                    handles, cur, wname, opened, quit_calls, now, trace >>

\* driver.get(args.browser_url) once the cookies are set (line 803)
LaunchReload ==
    /\ UNCHANGED auxvars
    /\ pc = "launch_reload"
    /\ NavigateTo("Launch", LOGIN_URL, "login")
    /\ UNCHANGED main_window_handle
    /\ UNCHANGED << argvars, driver, order_id, payment_result, order_result_url,
                    payment_handle, login_result, reservation_response,
                    existing_handles, trigger_result, exit_status, pollvars, session,
                    handles, cur, wname, opened, quit_calls, now, trace >>

\* browser_fetch(LOGIN_URL) and ensure_success("Login request")
Authenticate ==
    /\ UNCHANGED auxvars
    /\ pc = "login"
    /\ trace' = Append(trace, "Authenticate")
    /\ IF ~ CurUsable
       THEN /\ Fail("Authenticate", "WebDriverException", "session")
            /\ UNCHANGED login_result
       ELSE \E js \in FetchOutcomes({ << >> }) :
              IF browser_fetch_raises(js) # "none"
              THEN /\ Fail("Authenticate", browser_fetch_raises(js), "browser_fetch")
                   /\ UNCHANGED login_result
              ELSE /\ login_result' = js
                   /\ IF ensure_success(js)
                      THEN Go("reserve")
                      ELSE Fail("Authenticate", "Exception", "ensure_success")
    /\ UNCHANGED << argvars, driver, order_id, payment_result, order_result_url,
                    payment_handle, main_window_handle, reservation_response,
                    existing_handles, trigger_result, exit_status, pollvars, sessvars,
                    now >>

\* driver.get(args.post_login_url) (line 819)
Reserve ==
    /\ UNCHANGED auxvars
    /\ pc = "reserve"
    /\ trace' = Append(trace, "Reserve")
    /\ NavigateTo("Reserve", DAILY_URL, "reserve_fetch")
    /\ UNCHANGED << argvars, driver, order_id, payment_result, order_result_url,
                    payment_handle, main_window_handle, login_result,
                    reservation_response, existing_handles, trigger_result, exit_status,
                    pollvars, session, handles, cur, wname, opened, quit_calls, now >>

\* browser_fetch(RESERVATION_URL) and ensure_success("Reservation request")
\* (lines 833-840)
ReserveFetch ==
    /\ UNCHANGED auxvars
    /\ pc = "reserve_fetch"
    /\ IF ~ CurUsable
       THEN /\ Fail("Reserve", "WebDriverException", "session")
            /\ UNCHANGED reservation_response
       ELSE \E js \in FetchOutcomes(ReservationPages) :
              IF browser_fetch_raises(js) # "none"
              THEN /\ Fail("Reserve", browser_fetch_raises(js), "browser_fetch")
                   /\ UNCHANGED reservation_response
              ELSE /\ reservation_response' = js
                   /\ IF ensure_success(js)
                      THEN Go("extract")
                      ELSE Fail("Reserve", "Exception", "ensure_success")
    /\ UNCHANGED << argvars, driver, order_id, payment_result, order_result_url,
                    payment_handle, main_window_handle, login_result, existing_handles,
                    trigger_result, exit_status, pollvars, sessvars, now, trace >>

\* order_id = extract_order_id(reservation_response["text"])
ExtractOrderId ==
    /\ UNCHANGED auxvars
    /\ pc = "extract"
    /\ trace' = Append(trace, "ExtractOrderId")
    /\ LET found == extract_order_id(reservation_response.text)
       IN  IF found = None
           THEN /\ Fail("ExtractOrderId", "Exception", "extract_order_id")
                /\ UNCHANGED order_id
           ELSE /\ order_id' = found
                /\ Go("render")
    /\ UNCHANGED << argvars, driver, payment_result, order_result_url, payment_handle,
                    main_window_handle, login_result, reservation_response,
                    existing_handles, trigger_result, exit_status, pollvars, sessvars,
                    now >>

\* the poll interval of WebDriverWait (0.5 s), in ticks
WaitPollTicks == 1

\* driver.execute_script("document.open();document.write(...)") (line 843),
\* and the start of the wait of line 845: end_time = now + timeout
RenderReservation ==
    /\ UNCHANGED auxvars
    /\ pc = "render"
    /\ trace' = Append(trace, "RenderReservation")
    /\ IF ~ CurUsable
       THEN /\ Fail("RenderReservation", "WebDriverException", "session")
            /\ UNCHANGED end_time
       ELSE /\ Go("render_wait")
            /\ end_time' = now + timeout
    /\ UNCHANGED << argvars, driver, order_id, payment_result, order_result_url,
                    payment_handle, main_window_handle, login_result, reservation_response,
                    existing_handles, trigger_result, exit_status, loopvars, sessvars,
                    now >>

\* one poll of WebDriverWait(driver, args.timeout).until(find_element("name",
\* "ordr_idxx")) inside try / except TimeoutException (lines 844-849): the
\* element is found, or the wait sleeps and gives up once end_time is past
RenderWait ==
    /\ UNCHANGED auxvars
    /\ pc = "render_wait"
    /\ \E polled \in {"found", "absent", "WebDriverException"} :
         /\ (polled = "WebDriverException") = ~ CurUsable
         /\ IF polled = "found"
            THEN /\ Go("inject")
                 /\ end_time' = 0
                 /\ UNCHANGED now
            ELSE IF polled = "absent" /\ now + WaitPollTicks <= end_time
            THEN /\ Go("render_wait")
                 /\ now' = now + WaitPollTicks
                 /\ UNCHANGED end_time
            ELSE LET kind == IF polled = "absent" THEN "TimeoutException" ELSE polled
                 IN  /\ IF RenderWaitCaught(kind)
                        THEN Caught("RenderReservation", kind, "element_wait",
                                    << << "stderr", "[WARN] ordr_idxx element not seen", kind >> >>,
                                    "inject")
                        ELSE Fail("RenderReservation", kind, "element_wait")
                     /\ end_time' = 0
                     /\ now' = IF polled = "absent" THEN now + WaitPollTicks ELSE now
    /\ UNCHANGED << argvars, driver, order_id, payment_result, order_result_url,
                    payment_handle, main_window_handle, login_result, reservation_response,
                    existing_handles, trigger_result, exit_status, loopvars, sessvars,
                    trace >>

\* the script that fills good_name, buyr_name, good_mny when the form has them
InjectPaymentFields ==
    /\ UNCHANGED auxvars
    /\ pc = "inject"
    /\ trace' = Append(trace, "InjectPaymentFields")
    /\ IF ~ CurUsable
       THEN Fail("InjectPaymentFields", "WebDriverException", "session")
       ELSE Go("trigger")
    /\ UNCHANGED << argvars, driver, order_id, payment_result, order_result_url,
                    payment_handle, main_window_handle, login_result, reservation_response,
                    existing_handles, trigger_result, exit_status, pollvars, sessvars,
                    now >>

\* existing_handles = list(driver.window_handles) (line 865)
SnapshotHandles ==
    /\ UNCHANGED auxvars
    /\ pc = "trigger"
    /\ trace' = Append(trace, "TriggerPayment")
    /\ IF ~ SessionUp
       THEN /\ Fail("TriggerPayment", "WebDriverException", "session")
            /\ UNCHANGED existing_handles
       ELSE /\ existing_handles' = handles
            /\ Go("trigger_run")
    /\ UNCHANGED << argvars, driver, order_id, payment_result, order_result_url,
                    payment_handle, main_window_handle, login_result, reservation_response,
                    trigger_result, exit_status, pollvars, sessvars, now >>

\* the trigger script (line 866) and the two checks of its result
TriggerPayment ==
    /\ UNCHANGED auxvars
    /\ pc = "trigger_run"
    /\ IF ~ CurUsable
       THEN /\ Fail("TriggerPayment", "WebDriverException", "session")
            /\ UNCHANGED << trigger_result, payment_result >>
       ELSE \E page \in TriggerPages :
              /\ trigger_result' = trigger_script(page)
              /\ IF trigger_result' = "error:"
                 THEN /\ Fail("TriggerPayment", "Exception", "trigger_error")
                      /\ UNCHANGED payment_result
                 ELSE IF trigger_result' = "notfound"
                 THEN /\ Fail("TriggerPayment", "Exception", "trigger_notfound")
                      /\ UNCHANGED payment_result
                 ELSE /\ payment_result' = "triggered"
                      /\ Go("pw_enter")
    /\ UNCHANGED << argvars, driver, order_id, order_result_url, payment_handle,
                    main_window_handle, login_result, reservation_response,
                    existing_handles, exit_status, pollvars, sessvars, now, trace >>

(* ---------------------- wait_for_payment_window ------------------------ *)
\* the locals of wait_for_payment_window and await_order_result exist while
\* the call runs; no frame is active before the call and after its return
NoFrame ==
    /\ deadline' = 0
    /\ target_handle' = None
    /\ current_handles' = << >>
    /\ idx' = 0
    /\ detected_url' = None
    /\ target' = None
    /\ window_name' = ""
    /\ end_time' = 0

\* a loop test that lets a poll start at the deadline itself
BeforeDeadlineInclusive(clock, limit) == clock <= limit

\* time.time() < deadline, the test of both polling loops
BeforeDeadline(clock, limit) == clock < limit

\* a switch that leaves the current window where it was
switch_to_window_ignored(handle) == cur

\* driver.switch_to.window(handle), line 738: the current window afterwards
switch_to_window(handle) == handle

\* a known set that takes in the window inspected last
KnownHandlesWithInspected == Range(existing_handles) \cup {cur}

\* known_handles = set(existing_handles)
KnownHandles == Range(existing_handles)

\* a match that asks for the name and the URL together
PopupMatchesBoth(name, url) ==
    name = TARGET_NAME /\ ContainsKcpHost(url)

\* window_name == target_name or "spay.kcp.co.kr" in current_url
PopupMatches(name, url) ==
    name = TARGET_NAME \/ ContainsKcpHost(url)

\* an except clause for the timeout of the wait alone
ReadyWaitCaughtTimeoutOnly(kind) == kind = "TimeoutException"

\* except (TimeoutException, WebDriverException): pass (lines 765-766)
ReadyWaitCaught(kind) == kind \in {"TimeoutException", "WebDriverException"}

\* the call from main (line 906) and lines 728-730
PwEnter ==
    /\ UNCHANGED auxvars
    /\ pc = "pw_enter"
    /\ trace' = Append(trace, "AwaitPopup")
    /\ deadline' = now + timeout
    /\ target_handle' = None
    /\ Go("pw_while")
    /\ UNCHANGED << argvars, driver, order_id, payment_result, order_result_url,
                    payment_handle, main_window_handle, login_result, reservation_response,
                    existing_handles, trigger_result, exit_status, current_handles, idx,
                    detected_url, target, window_name, end_time, sessvars, now >>

\* while time.time() < deadline: current_handles = driver.window_handles;
\* after the loop without a match: raise TimeoutError, which main catches
PwWhile ==
    /\ UNCHANGED auxvars
    /\ pc = "pw_while"
    /\ IF BeforeDeadline(now, deadline)
       THEN IF ~ SessionUp
            THEN /\ Fail("AwaitPopup", "WebDriverException", "session")
                 /\ NoFrame
            ELSE /\ current_handles' = handles
                 /\ idx' = 1
                 /\ Go("pw_for")
                 /\ UNCHANGED << deadline, target_handle, detected_url, target,
                                 window_name, end_time >>
       ELSE /\ NoFrame
            /\ IF PopupCaught("TimeoutError")
               THEN Caught("AwaitPopup", "TimeoutError", "popup_deadline",
                           << << "stderr", "Failed to detect payment popup", "TimeoutError" >> >>,
                           "order_gate")
               ELSE Fail("AwaitPopup", "Exception", "popup_timeout")
    /\ UNCHANGED << argvars, driver, order_id, payment_result, order_result_url,
                    payment_handle, main_window_handle, login_result, reservation_response,
                    existing_handles, trigger_result, exit_status, sessvars, now, trace >>

\* `for handle in current_handles` up to the switch (lines 734-741): a known
\* handle and a failing switch are passed over; after the last handle,
\* time.sleep(0.5)
PwFor ==
    /\ UNCHANGED auxvars
    /\ pc = "pw_for"
    /\ IF idx > Len(current_handles)
       THEN /\ now' = now + PopupSleepTicks
            /\ Go("pw_while")
            /\ UNCHANGED << idx, cur, window_name >>
       ELSE LET handle == current_handles[idx]
            IN  IF handle \in KnownHandles
                THEN /\ idx' = idx + 1
                     /\ Go("pw_for")
                     /\ UNCHANGED << cur, window_name, now >>
                ELSE IF ~ WindowOpen(handle)
                THEN /\ idx' = idx + 1
                     /\ Caught("AwaitPopup", "WebDriverException", "switch", << >>, "pw_for")
                     /\ UNCHANGED << cur, window_name, now >>
                ELSE /\ cur' = switch_to_window(handle)
                     /\ window_name' = ""
                     /\ Go("pw_name")
                     /\ UNCHANGED << idx, now >>
    /\ UNCHANGED << argvars, driver, order_id, payment_result, order_result_url,
                    payment_handle, main_window_handle, login_result, reservation_response,
                    existing_handles, trigger_result, exit_status, deadline, target_handle,
                    current_handles, detected_url, target, end_time, session, handles,
                    wname, wurl, opened, quit_calls, trace >>

\* window_name = driver.execute_script("return window.name || '';"), "" when
\* the call fails (lines 742-745)
PwName ==
    /\ UNCHANGED auxvars
    /\ pc = "pw_name"
    /\ IF CurUsable
       THEN /\ window_name' = wname[cur]
            /\ Go("pw_url")
       ELSE /\ window_name' = ""
            /\ Caught("AwaitPopup", "WebDriverException", "window_name", << >>, "pw_url")
    /\ UNCHANGED << argvars, driver, order_id, payment_result, order_result_url,
                    payment_handle, main_window_handle, login_result, reservation_response,
                    existing_handles, trigger_result, exit_status, deadline, target_handle,
                    current_handles, idx, detected_url, target, end_time, sessvars, now,
                    trace >>

\* current_url = driver.current_url, "" when the call fails (lines 746-750);
\* the match (751-755) and, after it, the start of the wait of line 762
PwUrl ==
    /\ UNCHANGED auxvars
    /\ pc = "pw_url"
    /\ LET current_url == IF CurUsable THEN wurl[cur] ELSE ""
           next == IF PopupMatches(window_name, current_url) THEN "pw_ready" ELSE "pw_for"
       IN  /\ IF CurUsable
              THEN Go(next)
              ELSE Caught("AwaitPopup", "WebDriverException", "current_url", << >>, next)
           /\ IF PopupMatches(window_name, current_url)
              THEN /\ target_handle' = current_handles[idx]
                   /\ end_time' = now + timeout
                   /\ UNCHANGED idx
              ELSE /\ idx' = idx + 1
                   /\ UNCHANGED << target_handle, end_time >>
    /\ UNCHANGED << argvars, driver, order_id, payment_result, order_result_url,
                    payment_handle, main_window_handle, login_result, reservation_response,
                    existing_handles, trigger_result, exit_status, deadline,
                    current_handles, detected_url, target, window_name, sessvars, now,
                    trace >>

\* one poll of the document.readyState wait (lines 761-766), whose failure
\* is passed over, and `return target_handle` into main's payment_handle
PwReady ==
    /\ UNCHANGED auxvars
    /\ pc = "pw_ready"
    /\ \E polled \in {"complete", "loading", "WebDriverException"} :
         /\ (polled = "WebDriverException") = ~ CurUsable
         /\ IF polled = "loading" /\ now + WaitPollTicks <= end_time
            THEN /\ Go("pw_ready")
                 /\ now' = now + WaitPollTicks
                 /\ UNCHANGED << payment_handle, pollvars >>
            ELSE /\ IF polled = "complete"
                    THEN Go("pw_switch")
                    ELSE LET kind == IF polled = "loading" THEN "TimeoutException" ELSE polled
                         IN  IF ReadyWaitCaught(kind)
                             THEN Caught("AwaitPopup", kind, "ready_state", << >>, "pw_switch")
                             ELSE Fail("AwaitPopup", kind, "ready_state")
                 /\ now' = IF polled = "loading" THEN now + WaitPollTicks ELSE now
                 /\ payment_handle' = IF pc' = "pw_switch" THEN target_handle
                                      ELSE payment_handle
                 /\ NoFrame
    /\ UNCHANGED << argvars, driver, order_id, payment_result, order_result_url,
                    main_window_handle, login_result, reservation_response,
                    existing_handles, trigger_result, exit_status, sessvars, trace >>

\* driver.switch_to.window(payment_handle) in main (line 912)
PwSwitch ==
    /\ UNCHANGED auxvars
    /\ pc = "pw_switch"
    /\ IF WindowOpen(payment_handle)
       THEN /\ cur' = payment_handle
            /\ Go("order_gate")
       ELSE /\ Fail("AwaitPopup", "WebDriverException",
                    IF SessionUp THEN "NoSuchWindow" ELSE "session")
            /\ UNCHANGED cur
    /\ UNCHANGED << argvars, driver, order_id, payment_result, order_result_url,
                    payment_handle, main_window_handle, login_result, reservation_response,
                    existing_handles, trigger_result, exit_status, pollvars, session,
                    handles, wname, wurl, opened, quit_calls, now, trace >>

(* -------------------------- await_order_result ------------------------- *)
\* if not args.skip_order_wait: the call of await_order_result, lines 688-689
OrderGate ==
    /\ UNCHANGED auxvars
    /\ pc = "order_gate"
    /\ raised' = NoRaise
    /\ IF EntersOrderWait
       THEN /\ trace' = Append(trace, "AwaitConfirmation")
            /\ printed' = << << "stderr", "waiting for the confirmation page", "" >> >>
            /\ deadline' = now + order_wait_timeout * TicksPerSecond
            /\ detected_url' = None
            /\ pc' = "or_while"
       ELSE /\ pc' = "teardown"
            /\ printed' = << >>
            /\ UNCHANGED << trace, deadline, detected_url >>
    /\ UNCHANGED << argvars, exc, driver, order_id, payment_result, order_result_url,
                    payment_handle, main_window_handle, login_result, reservation_response,
                    existing_handles, trigger_result, exit_status, target_handle,
                    current_handles, idx, target, window_name, end_time, sessvars, now,
                    failed >>

\* while time.time() < deadline and detected_url is None:
\*     for handle in list(driver.window_handles)
OrWhile ==
    /\ UNCHANGED auxvars
    /\ pc = "or_while"
    /\ IF BeforeDeadline(now, deadline) /\ detected_url = None
       THEN IF ~ SessionUp
            THEN /\ Fail("AwaitConfirmation", "WebDriverException", "session")
                 /\ NoFrame
            ELSE /\ current_handles' = handles
                 /\ idx' = 1
                 /\ Go("or_for")
                 /\ UNCHANGED << deadline, target_handle, detected_url, target,
                                 window_name, end_time >>
       ELSE /\ Go("or_restore")
            /\ UNCHANGED pollvars
    /\ UNCHANGED << argvars, driver, order_id, payment_result, order_result_url,
                    payment_handle, main_window_handle, login_result, reservation_response,
                    existing_handles, trigger_result, exit_status, sessvars, now, trace >>

\* `for handle in list(driver.window_handles)` up to the switch (line 694): a
\* failing switch is passed over; after the loop, time.sleep(1)
OrFor ==
    /\ UNCHANGED auxvars
    /\ pc = "or_for"
    /\ IF idx > Len(current_handles)
       THEN /\ now' = now + OrderSleepTicks
            /\ Go("or_while")
            /\ UNCHANGED << idx, cur >>
       ELSE LET handle == current_handles[idx]
            IN  IF ~ WindowOpen(handle)
                THEN /\ idx' = idx + 1
                     /\ Caught("AwaitConfirmation", "WebDriverException", "switch", << >>, "or_for")
                     /\ UNCHANGED << cur, now >>
                ELSE /\ cur' = handle
                     /\ Go("or_url")
                     /\ UNCHANGED << idx, now >>
    /\ UNCHANGED << argvars, driver, order_id, payment_result, order_result_url,
                    payment_handle, main_window_handle, login_result, reservation_response,
                    existing_handles, trigger_result, exit_status, deadline, target_handle,
                    current_handles, detected_url, target, window_name, end_time, session,
                    handles, wname, wurl, opened, quit_calls, trace >>

\* current_url = driver.current_url (line 695), whose failure is passed over
\* (696-697); the test of the URL and, after the break, time.sleep(1)
OrUrl ==
    /\ UNCHANGED auxvars
    /\ pc = "or_url"
    /\ IF ~ CurUsable
       THEN /\ idx' = idx + 1
            /\ Caught("AwaitConfirmation", "WebDriverException", "current_url", << >>, "or_for")
            /\ UNCHANGED << detected_url, now >>
       ELSE IF ContainsOrdrRst(wurl[cur])
       THEN /\ detected_url' = wurl[cur]
            /\ now' = now + OrderSleepTicks
            /\ Go("or_while")
            /\ UNCHANGED idx
       ELSE /\ idx' = idx + 1
            /\ Go("or_for")
            /\ UNCHANGED << detected_url, now >>
    /\ UNCHANGED << argvars, driver, order_id, payment_result, order_result_url,
                    payment_handle, main_window_handle, login_result, reservation_response,
                    existing_handles, trigger_result, exit_status, deadline, target_handle,
                    current_handles, target, window_name, end_time, sessvars, trace >>

\* the main window preferred to the payment window
RestoreTargetMainFirst ==
    IF main_window_handle # None /\ WindowOpen(main_window_handle) THEN main_window_handle
    ELSE IF payment_handle # None /\ WindowOpen(payment_handle)
         THEN payment_handle
         ELSE None

\* lines 704-708: the window to give the focus back to
RestoreTarget ==
    IF payment_handle # None /\ WindowOpen(payment_handle) THEN payment_handle
    ELSE IF main_window_handle # None /\ WindowOpen(main_window_handle)
         THEN main_window_handle
         ELSE None

\* try: target = ... (a failing window_handles is passed over)
OrRestore ==
    /\ UNCHANGED auxvars
    /\ pc = "or_restore"
    /\ target' = RestoreTarget
    /\ IF SessionUp
       THEN Go("or_return")
       ELSE Caught("AwaitConfirmation", "WebDriverException", "restore", << >>,
                   "or_return")
    /\ UNCHANGED << argvars, driver, order_id, payment_result, order_result_url,
                    payment_handle, main_window_handle, login_result, reservation_response,
                    existing_handles, trigger_result, exit_status, deadline, target_handle,
                    current_handles, idx, detected_url, window_name, end_time, sessvars,
                    now, trace >>

\* if target: driver.switch_to.window(target) (a failure is passed over);
\* return detected_url into main's order_result_url
OrReturn ==
    /\ UNCHANGED auxvars
    /\ pc = "or_return"
    /\ IF target # None /\ ~ WindowOpen(target)
       THEN /\ Caught("AwaitConfirmation", "WebDriverException", "restore", << >>,
                   "teardown")
            /\ UNCHANGED cur
       ELSE /\ cur' = IF target # None THEN target ELSE cur
            /\ Go("teardown")
    /\ order_result_url' = detected_url
    /\ NoFrame
    /\ UNCHANGED << argvars, driver, order_id, payment_result, payment_handle,
                    main_window_handle, login_result, reservation_response,
                    existing_handles, trigger_result, exit_status, session, handles,
                    wname, wurl, opened, quit_calls, now, trace >>

(* ------------------------------ teardown ------------------------------- *)
\* the summary with the test of order_result_url inverted
SummaryUrlTestInverted ==
    << << "stdout", "Reservation verified with id", order_id >>,
       << "stdout", "Verification response status", "n/a" >>,
       << "stdout", "Payment popup status", payment_result >> >>
      \o (IF ~ skip_order_wait
          THEN (IF order_result_url = None
                THEN << << "stdout", "Final order confirmation detected at", order_result_url >> >>
                ELSE << << "stdout", "Timed out waiting for the order confirmation page", "" >> >>)
          ELSE << >>)
      \o << << "stdout", "browser left open", IF keep_browser_open THEN "yes" ELSE "no" >> >>

\* a summary that reports the order id of the first ordr_idxx tag it finds
SummaryFirstTagId ==
    << << "stdout", "Reservation verified with id",
          IF Len(reservation_response.text) > 0
          THEN NormalizedGet(reservation_response.text[1].attrs, "value")
          ELSE order_id >>,
       << "stdout", "Verification response status", "n/a" >>,
       << "stdout", "Payment popup status", payment_result >> >>
      \o (IF ~ skip_order_wait
          THEN (IF order_result_url # None
                THEN << << "stdout", "Final order confirmation detected at", order_result_url >> >>
                ELSE << << "stdout", "Timed out waiting for the order confirmation page", "" >> >>)
          ELSE << >>)
      \o << << "stdout", "browser left open", IF keep_browser_open THEN "yes" ELSE "no" >> >>

\* the lines main prints after the try statement (lines 940-953)
Summary ==
    << << "stdout", "Reservation verified with id", order_id >>,
       << "stdout", "Verification response status", "n/a" >>,
       << "stdout", "Payment popup status", payment_result >> >>
      \o (IF ~ skip_order_wait
          THEN (IF order_result_url # None
                THEN << << "stdout", "Final order confirmation detected at", order_result_url >> >>
                ELSE << << "stdout", "Timed out waiting for the order confirmation page", "" >> >>)
          ELSE << >>)
      \o << << "stdout", "browser left open", IF keep_browser_open THEN "yes" ELSE "no" >> >>

\* finally: driver.quit() unless told to keep the browser; then the return
\* of 1 pending from an except clause, or the summary and return 0
Teardown ==
    /\ UNCHANGED auxvars
    /\ pc = "teardown"
    /\ trace' = Append(trace, "Teardown")
    /\ IF TeardownQuits
       THEN /\ quit_calls' = quit_calls + 1
            /\ session' = IF session = "open" THEN "closed" ELSE session
            /\ handles' = << >>
            /\ wname' = [h \in AllHandles |-> ""]
            /\ wurl' = [h \in AllHandles |-> BLANK_URL]
       ELSE UNCHANGED << quit_calls, session, handles, wname, wurl >>
    /\ printed' = IF ExitStatus(exc) = 0 THEN Summary ELSE << >>
    /\ raised' = NoRaise
    /\ exit_status' = ExitStatus(exc)
    /\ pc' = "done"
    /\ UNCHANGED << argvars, exc, driver, order_id, payment_result, order_result_url,
                    payment_handle, main_window_handle, login_result, reservation_response,
                    existing_handles, trigger_result, pollvars, cur, opened, now, failed >>

(* ------------------- the pages, the user, the browser ------------------ *)
\* while the run holds a session, page scripts and the user open, navigate
\* and close windows between any two calls the run makes on it
PagesActive ==
    /\ SessionUp
    /\ pc # "done"

\* a page opens a window, at most `limit` of them in a run
OpenWindow(limit) ==
    /\ UNCHANGED auxvars
    /\ PagesActive
    /\ opened < limit
    /\ \E name \in {"", TARGET_NAME}, url \in {BLANK_URL, PAYMENT_POP_URL} :
         /\ wname' = [wname EXCEPT ![HandleOf(opened + 1)] = name]
         /\ wurl' = [wurl EXCEPT ![HandleOf(opened + 1)] = url]
    /\ handles' = Append(handles, HandleOf(opened + 1))
    /\ opened' = opened + 1
    /\ UNCHANGED << argvars, mainvars, pollvars, session, cur, quit_calls, now, stepvars,
                    histvars >>

EnvOpenWindow == OpenWindow(MaxPopups)

EnvNavigate ==
    /\ UNCHANGED auxvars
    /\ PagesActive
    /\ \E h \in Range(handles), url \in {PAYMENT_POP_URL, ORDER_RESULT_URL} :
         /\ wurl[h] # url
         /\ h = MAIN_HANDLE => url = ORDER_RESULT_URL
         /\ wurl' = [wurl EXCEPT ![h] = url]
    /\ UNCHANGED << argvars, mainvars, pollvars, session, handles, cur, wname, opened,
                    quit_calls, now, stepvars, histvars >>

EnvCloseWindow ==
    /\ UNCHANGED auxvars
    /\ PagesActive
    /\ Len(handles) > 1
    /\ \E h \in Range(handles) :
         /\ handles' = Remove(handles, h)
         /\ wname' = [wname EXCEPT ![h] = ""]
         /\ wurl' = [wurl EXCEPT ![h] = BLANK_URL]
    /\ UNCHANGED << argvars, mainvars, pollvars, session, cur, opened, quit_calls, now,
                    stepvars, histvars >>

\* the browser crashes, the driver disconnects, or the user closes the browser
EnvSessionDies ==
    /\ UNCHANGED auxvars
    /\ SessionUp
    /\ pc # "done"
    /\ session' = "dead"
    /\ handles' = << >>
    /\ wname' = [h \in AllHandles |-> ""]
    /\ wurl' = [h \in AllHandles |-> BLANK_URL]
    /\ UNCHANGED << argvars, mainvars, pollvars, cur, opened, quit_calls, now, stepvars,
                    histvars >>

(* --------------------------- specification ----------------------------- *)
Main ==
    \/ Launch \/ LaunchGet \/ LaunchHandle \/ LaunchCookie \/ LaunchReload
    \/ Authenticate \/ Reserve \/ ReserveFetch \/ ExtractOrderId \/ RenderReservation
    \/ RenderWait \/ InjectPaymentFields \/ SnapshotHandles \/ TriggerPayment
    \/ PwEnter \/ PwWhile \/ PwFor \/ PwName \/ PwUrl \/ PwReady \/ PwSwitch
    \/ OrderGate \/ OrWhile \/ OrFor \/ OrUrl \/ OrRestore \/ OrReturn
    \/ Teardown

Env == EnvOpenWindow \/ EnvNavigate \/ EnvCloseWindow \/ EnvSessionDies

Next == Main \/ Env

Spec == Init /\ [][Next]_vars

(* ------------- wait_for_payment_window with several popups ------------- *)
\* main at the call of wait_for_payment_window (line 905) in a run whose
\* earlier stages succeeded; a window named like the payment popup may have
\* been open before the trigger
PopupWaitState(skip) ==
    /\ keep_browser_open = FALSE
    /\ skip_order_wait = skip
    /\ timeout \in {0, MaxTimeout}
    /\ order_wait_timeout = MaxOrderWait
    /\ pc = "pw_enter"
    /\ exc = "none"
    /\ driver = TRUE
    /\ order_id = "ORD2"
    /\ payment_result = "triggered"
    /\ order_result_url = None
    /\ payment_handle = None
    /\ main_window_handle = MAIN_HANDLE
    /\ login_result = JsResult("status", 200, << >>, "")
    /\ reservation_response = JsResult("status", 200, << TagOrd2 >>, "")
    /\ opened \in {0, 1}
    /\ existing_handles = [i \in 1..(opened + 1) |-> HandleOf(i - 1)]
    /\ trigger_result = "function"
    /\ exit_status = NoExit
    /\ deadline = 0
    /\ target_handle = None
    /\ current_handles = << >>
    /\ idx = 0
    /\ detected_url = None
    /\ target = None
    /\ window_name = ""
    /\ end_time = 0
    /\ session = "open"
    /\ handles = existing_handles
    /\ cur = MAIN_HANDLE
    /\ wname = [h \in AllHandles |-> IF h \in Range(handles) \ {MAIN_HANDLE}
                                      THEN TARGET_NAME ELSE ""]
    /\ wurl = [h \in AllHandles |-> IF h = MAIN_HANDLE THEN DAILY_URL ELSE BLANK_URL]
    /\ quit_calls = 0
    /\ now = 0
    /\ printed = << >>
    /\ raised = NoRaise
    /\ trace = SubSeq(Stages, 1, 7)
    /\ failed = NoFailure

AtPopupWait(skip) ==
    /\ NoFetch
    /\ NoCall
    /\ NoGui
    /\ NoLog
    /\ PopupWaitState(skip)

PollInit == AtPopupWait(TRUE)

PollOpenWindow == OpenWindow(MaxPollPopups)

PollNext ==
    \/ PwEnter \/ PwWhile \/ PwFor \/ PwName \/ PwUrl \/ PwReady
    \/ PollOpenWindow \/ EnvNavigate \/ EnvCloseWindow \/ EnvSessionDies

PollSpec == PollInit /\ [][PollNext]_vars

(* --------------- browser_fetch: the script in the page ----------------- *)
\* main is not running while one call is looked into on its own
Parked ==
    /\ ProgInit
    /\ ~ keep_browser_open
    /\ skip_order_wait
    /\ timeout = 0
    /\ order_wait_timeout = MaxOrderWait

\* the timer armed for the timeout itself, without the floor of one second
timeout_ms_no_floor(t) == t * MsPerTick

\* timeout_ms = max(int(timeout * 1000), 1000), for a timeout given in ticks
timeout_ms(t) == IF t * MsPerTick > MinTimerMs THEN t * MsPerTick ELSE MinTimerMs

\* the timer set by setTimeout(() => controller.abort(), timeoutMs) is due
TimerDue == f_clock * MsPerTick >= timeout_ms(f_timeout)

\* a status result that carries an error message as well
DoneStatusWithError(status, text) == JsResult("status", status, text, "ok")

\* done({ status: response.status, text })
DoneStatus(status, text) == JsResult("status", status, text, "")
\* done({ error: error instanceof Error ? error.message : String(error) })
DoneError(message) == JsResult("error", NoStatus, << >>, message)

\* an abort that no longer reaches a response whose headers have arrived
AbortRejectsPendingOnly(fetch_state) == fetch_state = "pending"

\* controller.abort() rejects a fetch whose body has not been read in full
AbortRejects(fetch_state) == fetch_state \in {"pending", "headers"}

\* the script timeout of the session, which the program never changes: the
\* driver gives up an asynchronous script that has not called done after 30 s
ScriptTimeoutTicks == 60

\* the default of --timeout, 15 s
DefaultTimeoutTicks == 30

\* the timeouts a call is made with: the short ones, the default, and those
\* around the script timeout of the driver
FetchTimeouts ==
    (0..MaxFetchTimeout)
        \cup {DefaultTimeoutTicks, ScriptTimeoutTicks - 1, ScriptTimeoutTicks,
              ScriptTimeoutTicks + 1}

FetchClockEnd == ScriptTimeoutTicks + 1 + TicksPerSecond

\* execute_async_script has not handed control back to browser_fetch
ScriptWaiting == f_result = NoFetchResult

\* the driver's script timeout is due: no done within ScriptTimeoutTicks
ScriptTimeoutDue ==
    /\ ScriptWaiting
    /\ Len(f_done) = 0
    /\ f_fetch \in {"pending", "headers"}
    /\ f_clock >= ScriptTimeoutTicks

\* execute_async_script raises: a javascript error, a script timeout, a page
\* or session that is gone; all are WebDriverException
DriverError == [kind |-> "raised", exc |-> "WebDriverException", value |-> NoResult]

FetchInit ==
    /\ Parked
    /\ NoCall
    /\ NoGui
    /\ NoLog
    /\ f_timeout \in FetchTimeouts
    /\ f_clock = 0
    /\ f_timer = "none"
    /\ f_fetch = "none"
    /\ f_done = << >>
    /\ f_result = NoFetchResult

\* execute_async_script starts the script (lines 393-400), which runs to its
\* end in one go: the timer is armed, the header map is copied into a Headers
\* object, and fetch is called; headers.append throws a TypeError for a
\* name or a value that is no valid header, and then fetch is never called
FetchStart ==
    /\ f_fetch = "none"
    /\ f_timer' = "armed"
    /\ \E accepted \in BOOLEAN : f_fetch' = IF accepted THEN "pending" ELSE "thrown"
    /\ UNCHANGED << f_timeout, f_clock, f_done, f_result, callvars, logvars, guivars, progvars >>

\* the response headers arrive: the then-callback awaits response.text()
FetchHeaders ==
    /\ f_fetch = "pending"
    /\ f_fetch' = "headers"
    /\ UNCHANGED << f_timeout, f_clock, f_timer, f_done, f_result, callvars, logvars, guivars, progvars >>

\* the body is read: clearTimeout(timer); done({status, text})
FetchBody ==
    /\ f_fetch = "headers"
    /\ \E status \in Statuses, text \in ReservationPages :
         f_done' = Append(f_done, [result |-> DoneStatus(status, text), at |-> f_clock])
    /\ f_fetch' = "settled"
    /\ f_timer' = "cleared"
    /\ UNCHANGED << f_timeout, f_clock, f_result, callvars, logvars, guivars, progvars >>

\* the request or the body read fails: catch, clearTimeout(timer); done({error})
FetchNetworkError ==
    /\ f_fetch \in {"pending", "headers"}
    /\ f_done' = Append(f_done, [result |-> DoneError("Failed to fetch"), at |-> f_clock])
    /\ f_fetch' = "rejected"
    /\ f_timer' = "cleared"
    /\ UNCHANGED << f_timeout, f_clock, f_result, callvars, logvars, guivars, progvars >>

\* the timer fires: controller.abort(); the rejected fetch or body read goes
\* to catch, which calls done({error}); with no fetch under way the abort
\* does nothing
FetchTimerFires ==
    /\ f_timer = "armed"
    /\ TimerDue
    /\ f_timer' = "fired"
    /\ IF AbortRejects(f_fetch)
       THEN /\ f_fetch' = "rejected"
            /\ f_done' = Append(f_done, [result |-> DoneError("AbortError"), at |-> f_clock])
       ELSE UNCHANGED << f_fetch, f_done >>
    /\ UNCHANGED << f_timeout, f_clock, f_result, callvars, logvars, guivars, progvars >>

\* time passes in the page; a timer that is due fires, and a script timeout
\* that is due ends the call, before the next tick
FetchTick ==
    /\ f_fetch \notin {"none", "gone"}
    /\ f_clock < FetchClockEnd
    /\ ~ (f_timer = "armed" /\ TimerDue)
    /\ ~ ScriptTimeoutDue
    /\ f_clock' = f_clock + 1
    /\ UNCHANGED << f_timeout, f_timer, f_fetch, f_done, f_result, callvars, logvars, guivars, progvars >>

\* the script threw before it called fetch: execute_async_script (line 418)
\* raises the javascript error; done is never called
FetchScriptThrows ==
    /\ ScriptWaiting
    /\ f_fetch = "thrown"
    /\ f_result' = DriverError
    /\ UNCHANGED << f_timeout, f_clock, f_timer, f_fetch, f_done, callvars, logvars, guivars, progvars >>

\* done was not called within the script timeout: execute_async_script
\* raises; the script runs on in the page
FetchScriptTimeout ==
    /\ ScriptTimeoutDue
    /\ f_result' = DriverError
    /\ UNCHANGED << f_timeout, f_clock, f_timer, f_fetch, f_done, callvars, logvars, guivars, progvars >>

\* the page is unloaded, its window closed or the session lost while the
\* request is under way: the script is gone with its timer, done is never
\* called, execute_async_script raises
FetchPageGone ==
    /\ ScriptWaiting
    /\ Len(f_done) = 0
    /\ f_fetch \in {"pending", "headers"}
    /\ f_fetch' = "gone"
    /\ f_timer' = "gone"
    /\ f_result' = DriverError
    /\ UNCHANGED << f_timeout, f_clock, f_done, callvars, logvars, guivars, progvars >>

\* execute_async_script returns the argument of the first done; browser_fetch
\* raises on an error message and returns the result otherwise (lines 418-427)
FetchReturn ==
    /\ ScriptWaiting
    /\ Len(f_done) > 0
    /\ f_result' =
         IF browser_fetch_raises(f_done[1].result) = "none"
         THEN [kind |-> "returned", exc |-> "none", value |-> f_done[1].result]
         ELSE [kind |-> "raised", exc |-> browser_fetch_raises(f_done[1].result),
               value |-> NoResult]
    /\ UNCHANGED << f_timeout, f_clock, f_timer, f_fetch, f_done, callvars, logvars, guivars, progvars >>

FetchNext ==
    \/ FetchStart \/ FetchHeaders \/ FetchBody \/ FetchNetworkError
    \/ FetchTimerFires \/ FetchTick \/ FetchScriptThrows \/ FetchScriptTimeout
    \/ FetchPageGone \/ FetchReturn

FetchSpec == FetchInit /\ [][FetchNext]_vars

(* ------------- the audit-log line of a request, and the log ------------- *)
\* the most headers of a map, and the most tokens of a slot list
MaxHeaders == 2
MaxSlotParts == 3

RESERVATION_URL == "https://www.gytennis.or.kr/rsvConfirm"

\* header names in several letter cases, and header values (None: no value)
HeaderNames ==
    {"Host", "host", "HOST", "Content-Length", "content-length", "Accept", "X-Host"}
HeaderValues == {None, "a", "it's"}
\* a header map: a dict in insertion order, its keys distinct as written
HeaderMaps ==
    { h \in UNION { [1..n -> HeaderNames \X HeaderValues] : n \in 0..MaxHeaders } :
        \A i, j \in 1..Len(h) : i # j => h[i][1] # h[j][1] }
Methods == {"GET", "get", "POST", "post"}
Bodies == {None, "", "k=v"}

\* key.lower() on the header names above
LowerKey(key) ==
    CASE key \in {"Host", "HOST"} -> "host"
      [] key = "Content-Length" -> "content-length"
      [] key = "Accept" -> "accept"
      [] key = "X-Host" -> "x-host"
      [] OTHER -> key

\* method.upper()
Upper(method) ==
    CASE method = "get" -> "GET"
      [] method = "post" -> "POST"
      [] OTHER -> method

\* value.replace("'", "'\"'\"'") on the values above
ReplaceQuote(value) ==
    CASE value = "it's" -> "it'\"'\"'s"
      [] value = "Accept: it's" -> "Accept: it'\"'\"'s"
      [] value = "X-Host: it's" -> "X-Host: it'\"'\"'s"
      [] value = "Host: it's" -> "Host: it'\"'\"'s"
      [] value = "host: it's" -> "host: it'\"'\"'s"
      [] value = "HOST: it's" -> "HOST: it'\"'\"'s"
      [] value = "Content-Length: it's" -> "Content-Length: it'\"'\"'s"
      [] value = "content-length: it's" -> "content-length: it'\"'\"'s"
      [] OTHER -> value

quote_for_shell(value) == "'" \o ReplaceQuote(value) \o "'"

\* sep.join(parts)
RECURSIVE Join(_, _)
Join(parts, sep) ==
    IF parts = << >> THEN ""
    ELSE IF Len(parts) = 1 THEN parts[1]
    ELSE parts[1] \o sep \o Join(Tail(parts), sep)

\* the two continue tests of the header loop
SkipsHeaderCaseSensitive(key, value) ==
    value = None \/ key \in {"host", "content-length"}

SkipsHeader(key, value) ==
    value = None \/ LowerKey(key) \in {"host", "content-length"}

\* the header loop: what it adds to parts
RECURSIVE HeaderParts(_)
HeaderParts(headers) ==
    IF headers = << >> THEN << >>
    ELSE LET key == Head(headers)[1]
             value == Head(headers)[2]
         IN  (IF SkipsHeader(key, value) THEN << >>
              ELSE << "-H", quote_for_shell(key \o ": " \o value) >>)
             \o HeaderParts(Tail(headers))

\* parts, as build_curl_command has it before the join
curl_parts(method, url, headers, body) ==
    << "curl" >>
    \o (IF Upper(method) # "GET" THEN << "-X", Upper(method) >> ELSE << >>)
    \o HeaderParts(headers)
    \o (IF body # None /\ body # ""
        THEN << "--data-binary", quote_for_shell(body) >> ELSE << >>)
    \o << quote_for_shell(url) >>

build_curl_command(method, url, headers, body) ==
    Join(curl_parts(method, url, headers, body), " ")

\* coerce_slot, and the slot lists it is given (nargs="+": never empty)
SlotTokens == {"0900", "1000", "a|b"}
SlotLists == UNION { [1..n -> SlotTokens] : n \in 1..MaxSlotParts }

coerce_slot_concat(parts) == Join(parts, "")

coerce_slot(parts) ==
    IF Len(parts) = 1 THEN parts[1] ELSE Join(parts, "|")

\* the files the log path can name before a run
OldLine == "curl 'https://www.gytennis.or.kr/old'\n"
FilesBefore ==
    {NoFile, [exists |-> TRUE, text |-> ""], [exists |-> TRUE, text |-> OldLine]}
LogPaths == {"", "curl.log"}

\* how the calls of set_curl_log_file on the file system can end
FsOutcomes == {"ok", "OSError"}

\* how the open and the write of append_curl_log can end: the open fails; the
\* write or the close fails with nothing or with a part of the line on the
\* file; the text has no UTF-8 encoding
IoOutcomes ==
    {"ok", "OSError_open", "OSError_write_none", "OSError_write_part",
     "UnicodeEncodeError"}

\* set_curl_log_file: the value it leaves in CURL_LOG_FILE
set_curl_log_file(path) == IF path = "" THEN None ELSE path

\* resolved.touch() if the file does not exist
touch(file) == IF file.exists THEN file ELSE [exists |-> TRUE, text |-> ""]

\* a leading part of a command line, as a write that ran out of space leaves
\* it: every command starts with the part "curl" and the separator
Fragment(command) == "curl "

\* append_curl_log: the log file after the call
append_curl_log_truncating(path, file, command, io) ==
    IF path = None \/ io # "ok" THEN file
    ELSE [exists |-> TRUE, text |-> command \o "\n"]

\* open("a") creates the file; only OSError is passed over
append_curl_log(path, file, command, io) ==
    IF path = None THEN file
    ELSE CASE io = "OSError_open" -> file
           [] io = "ok" -> [exists |-> TRUE, text |-> file.text \o command \o "\n"]
           [] io = "OSError_write_part" ->
                [exists |-> TRUE, text |-> file.text \o Fragment(command)]
           [] OTHER -> [exists |-> TRUE, text |-> file.text]

\* the exception that leaves append_curl_log, or "none"
append_curl_log_raises(path, io) ==
    IF path # None /\ io = "UnicodeEncodeError" THEN "UnicodeEncodeError" ELSE "none"

\* urllib.parse.quote_plus on the keys and values of the payloads
quote_plus(value) ==
    CASE value = "isvkrr[]" -> "isvkrr%5B%5D"
      [] value = "0900|1000" -> "0900%7C1000"
      [] value = "p w'd" -> "p+w%27d"
      [] value = "court 1" -> "court+1"
      [] OTHER -> value

\* urllib.parse.urlencode(payload, doseq=True) of a dict of strings
urlencode(payload) ==
    Join([i \in 1..Len(payload) |->
             quote_plus(payload[i][1]) \o "=" \o quote_plus(payload[i][2])], "&")

\* a URL given on the command line with a byte that is no text in the locale:
\* it holds a lone surrogate, which has no UTF-8 encoding
UnencodableUrl == "https://www.gytennis.or.kr/Login?\\udcff"

\* --browser-url and --post-login-url: the defaults, and a URL of that kind
BrowserUrls == {LOGIN_URL, UnencodableUrl}
PostLoginUrls == {DAILY_URL}

\* the header map of both requests (lines 805-813, 821-826)
COMMON_FORM_ACCEPT ==
    "text/html,application/xhtml+xml,application/xml;q=0.9,image/avif,image/webp,image/apng,*/*;q=0.8"
RequestHeaders(referer) ==
    << << "Accept", COMMON_FORM_ACCEPT >>,
       << "Content-Type", "application/x-www-form-urlencoded; charset=UTF-8" >>,
       << "Origin", "https://www.gytennis.or.kr" >>,
       << "Referer", referer >> >>

\* the payloads (lines 814, 827-832)
login_payload(userid, passwd) == << << "userid", userid >>, << "passwd", passwd >> >>
reservation_payload(cvalue, cdate, slot_value, van_code) ==
    << << "cvalue", cvalue >>, << "cdate", cdate >>, << "isvkrr[]", slot_value >>,
       << "van_code", van_code >> >>

\* the requests main issues through browser_fetch, in order: URL, header
\* maps and payloads
Requests == << LOGIN_URL, RESERVATION_URL >>
Referers(n) == IF n = 1 THEN BrowserUrls ELSE PostLoginUrls
Payloads(n) ==
    IF n = 1
    THEN { login_payload("u", passwd) : passwd \in {"p", "p w'd"} }
    ELSE { reservation_payload("1", "2025-01-01", slot_value, van_code) :
             slot_value \in {"0900", "0900|1000"}, van_code \in {"", "v1"} }

\* the ends the write of a command can take: a text with a lone surrogate
\* cannot be encoded, every other text can
WriteOutcomes(url) ==
    IF url = UnencodableUrl
    THEN {"OSError_open", "UnicodeEncodeError"}
    ELSE IoOutcomes \ {"UnicodeEncodeError"}

LogInit ==
    /\ Parked
    /\ NoFetch
    /\ NoCall
    /\ NoGui
    /\ CURL_LOG_FILE = None
    /\ log_file \in FilesBefore
    /\ log_before = log_file
    /\ issued = << >>
    /\ log_pc = "start"

\* main, line 772: set_curl_log_file(args.curl_log_file), outside the try of
\* main: an OSError of mkdir, exists or touch leaves main and ends the run
\* before CURL_LOG_FILE is assigned
LogSetCurlLogFile ==
    /\ log_pc = "start"
    /\ \E path \in LogPaths, io \in FsOutcomes :
         IF path = ""
         THEN /\ CURL_LOG_FILE' = None
              /\ log_pc' = "main"
              /\ UNCHANGED log_file
         ELSE IF io = "OSError"
         THEN /\ log_pc' = "raised"
              /\ UNCHANGED << CURL_LOG_FILE, log_file >>
         ELSE /\ CURL_LOG_FILE' = set_curl_log_file(path)
              /\ log_file' = touch(log_file)
              /\ log_pc' = "main"
    /\ UNCHANGED << log_before, issued, fetchvars, callvars, guivars, progvars >>

\* browser_fetch, lines 375-378: the command is logged before the request;
\* an exception of append_curl_log leaves browser_fetch and ends the run in
\* main's except Exception
LogBrowserFetch ==
    /\ log_pc = "main"
    /\ Len(issued) < Len(Requests)
    /\ LET n == Len(issued) + 1
       IN  \E referer \in Referers(n), payload \in Payloads(n) :
             \E io \in WriteOutcomes(referer) :
               LET command == build_curl_command("POST", Requests[n],
                                                 RequestHeaders(referer), urlencode(payload))
               IN  /\ log_file' = append_curl_log(CURL_LOG_FILE, log_file, command, io)
                   /\ issued' = Append(issued, [command |-> command, io |-> io])
                   /\ log_pc' = IF append_curl_log_raises(CURL_LOG_FILE, io) = "none"
                                THEN "main" ELSE "ended"
    /\ UNCHANGED << CURL_LOG_FILE, log_before, fetchvars, callvars, guivars, progvars >>

\* the run ends, after any number of its requests
LogRunEnds ==
    /\ log_pc = "main"
    /\ log_pc' = "ended"
    /\ UNCHANGED << CURL_LOG_FILE, log_file, log_before, issued,
                    fetchvars, callvars, guivars, progvars >>

LogNext == LogSetCurlLogFile \/ LogBrowserFetch \/ LogRunEnds

LogSpec == LogInit /\ [][LogNext]_vars

(* ------------------- both polling loops, main running on --------------- *)
\* main at the call of wait_for_payment_window in a run that waits for the
\* confirmation page as well
WaitInit == AtPopupWait(FALSE)

WaitMain ==
    \/ PwEnter \/ PwWhile \/ PwFor \/ PwName \/ PwUrl \/ PwReady \/ PwSwitch
    \/ OrderGate \/ OrWhile \/ OrFor \/ OrUrl \/ OrRestore \/ OrReturn

WaitNext == WaitMain \/ Env

\* main runs on: each of its steps returns or raises
WaitSpec == WaitInit /\ [][WaitNext]_vars /\ WF_vars(WaitMain)

(* ------- the functions that open a window under a target name ---------- *)
\* the most calls of render_html_in_window and submit_form_to_window in a run
\* of the model
MaxWindowCalls == 2

\* the window names the two functions are called with
WindowNames == {TARGET_NAME, "preview"}

\* window.open(url, targetName), lines 442 and 563, when the browser allows
\* it: the open window of that name if there is one, a new window otherwise
PopupOf(targetName) ==
    IF \E h \in Range(handles) : wname[h] = targetName
    THEN CHOOSE h \in Range(handles) : wname[h] = targetName
    ELSE HandleOf(opened + 1)

\* the session after the script opened or reused the window named targetName
\* and left it at url
OpenNamed(targetName, url) ==
    LET popup == PopupOf(targetName)
    IN  /\ handles' = IF popup \in Range(handles) THEN handles ELSE Append(handles, popup)
        /\ opened' = IF popup \in Range(handles) THEN opened ELSE opened + 1
        /\ wname' = [wname EXCEPT ![popup] = targetName]
        /\ wurl' = [wurl EXCEPT ![popup] = url]

\* the origin of the page the caller is on (lines 547-550): its scheme and
\* host, the site's when the URL has no host
OriginOf(current_url) ==
    CASE current_url = PAYMENT_POP_URL -> "https://spay.kcp.co.kr"
      [] OTHER -> "https://www.gytennis.or.kr"

ACCEPT_HEADER ==
    "text/html,application/xhtml+xml,application/xml;q=0.9,image/avif,image/webp,image/apng,*/*;q=0.8,application/signed-exchange;v=b3;q=0.7"

\* payment_log_headers (lines 551-556)
PaymentLogHeaders(current_url) ==
    << << "accept", ACCEPT_HEADER >>,
       << "content-type", "application/x-www-form-urlencoded" >>,
       << "origin", OriginOf(current_url) >>,
       << "referer", current_url >> >>

\* the script may not touch the document of the window popup: the window was
\* open already and shows a page of another origin than the calling page; a
\* window that shows about:blank has the origin of the page that opened it,
\* the caller's or not
CrossOrigin(popup, foreign) ==
    /\ popup \in Range(handles)
    /\ popup # cur
    /\ IF wurl[popup] = BLANK_URL THEN foreign
       ELSE OriginOf(wurl[popup]) # OriginOf(wurl[cur])

\* the form fields of the payment request, and the URL it is posted to
\* (--payment-url)
PaymentFields ==
    { << << "ordr_idxx", "ORD1" >>, << "good_name", "court 1" >> >> }
PayUrls == {PAYMENT_POP_URL, UnencodableUrl}

\* a caller with an open session, the log file chosen or not, and the file
\* as set_curl_log_file left it or removed since; fn_arg holds the calls
\* made so far, fn and fn_out the latest call and its outcome
WindowInit ==
    /\ NoFetch
    /\ NoGui
    /\ PopupWaitState(TRUE)
    /\ fn = "none"
    /\ fn_arg = << >>
    /\ fn_out = << >>
    /\ CURL_LOG_FILE \in {None, "curl.log"}
    /\ log_file \in IF CURL_LOG_FILE = None THEN {NoFile} ELSE FilesBefore
    /\ log_before = log_file
    /\ issued = << >>
    /\ log_pc = "main"

\* render_html_in_window (lines 436-521): with reuse_tab the script draws an
\* overlay in the current document; without it the script opens the window
\* named window_name, unless the browser blocks it, and writes the HTML into
\* it, which leaves the window at its URL, at about:blank or at the URL of
\* the calling page; popup.document throws a SecurityError when the window
\* found shows a page of another origin, and execute_script raises
render_html_in_window ==
    /\ fn_out # << "running" >>
    /\ Len(fn_arg) < MaxWindowCalls
    /\ \E name \in WindowNames, reuse_tab \in BOOLEAN, blocked \in BOOLEAN,
          foreign \in BOOLEAN, url \in Urls :
         /\ fn' = "render_html_in_window"
         /\ fn_arg' = Append(fn_arg, << fn', name, reuse_tab >>)
         /\ IF ~ CurUsable
            THEN /\ fn_out' = << "raises", "WebDriverException" >>
                 /\ UNCHANGED << handles, opened, wname, wurl >>
            ELSE IF reuse_tab \/ blocked
            THEN /\ fn_out' = << "returns", None >>
                 /\ UNCHANGED << handles, opened, wname, wurl >>
            ELSE IF CrossOrigin(PopupOf(name), foreign)
            THEN /\ fn_out' = << "raises", "WebDriverException" >>
                 /\ UNCHANGED << handles, opened, wname, wurl >>
            ELSE /\ fn_out' = << "returns", None >>
                 /\ url \in {BLANK_URL, wurl[cur], wurl[PopupOf(name)]}
                 /\ OpenNamed(name, url)
    /\ UNCHANGED << argvars, mainvars, pollvars, session, cur, quit_calls, now, stepvars,
                    histvars, fetchvars, logvars, guivars >>

\* submit_form_to_window up to its script (lines 531-557): driver.current_url
\* and the line appended to the curl log; an exception of the append leaves
\* the function before the script is run
submit_form_to_window ==
    /\ fn_out # << "running" >>
    /\ Len(fn_arg) < MaxWindowCalls
    /\ \E name \in WindowNames, reuse_tab \in BOOLEAN, fields \in PaymentFields,
          url \in PayUrls :
         /\ fn' = "submit_form_to_window"
         /\ fn_arg' = Append(fn_arg, << fn', name, reuse_tab, url >>)
         /\ IF ~ CurUsable
            THEN /\ fn_out' = << "raises", "WebDriverException" >>
                 /\ UNCHANGED << log_file, issued >>
            ELSE \E io \in WriteOutcomes(url) :
                   LET command == build_curl_command("POST", url,
                                                     PaymentLogHeaders(wurl[cur]),
                                                     urlencode(fields))
                   IN  /\ fn_out' =
                            IF append_curl_log_raises(CURL_LOG_FILE, io) = "none"
                            THEN << "running" >>
                            ELSE << "raises", append_curl_log_raises(CURL_LOG_FILE, io) >>
                       /\ log_file' = append_curl_log(CURL_LOG_FILE, log_file, command, io)
                       /\ issued' = Append(issued, [command |-> command, io |-> io])
    /\ UNCHANGED << progvars, fetchvars, guivars, CURL_LOG_FILE, log_before, log_pc >>

\* the script of submit_form_to_window (lines 558-679): with reuse_tab an
\* overlay with a frame that the form is posted to; without it the window
\* named window_name is opened at about:blank, unless the browser blocks it,
\* and the form is posted to it, which leaves it at about:blank, at the URL
\* of the calling page or, once the post is answered, at the form's URL;
\* popup.document (line 567) throws a SecurityError when the window found
\* shows a page of another origin: execute_script raises, the form is not
\* posted, and the window stays where it was or goes to about:blank
SubmitFormScript ==
    /\ fn_out = << "running" >>
    /\ \E blocked \in BOOLEAN, foreign \in BOOLEAN, url \in Urls \cup PayUrls :
         LET name == fn_arg[Len(fn_arg)][2]
             reuse_tab == fn_arg[Len(fn_arg)][3]
             targetUrl == fn_arg[Len(fn_arg)][4]
         IN  IF ~ CurUsable
             THEN /\ fn_out' = << "raises", "WebDriverException" >>
                  /\ UNCHANGED << handles, opened, wname, wurl >>
             ELSE IF reuse_tab \/ blocked
             THEN /\ fn_out' = << "returns", None >>
                  /\ UNCHANGED << handles, opened, wname, wurl >>
             ELSE IF CrossOrigin(PopupOf(name), foreign)
             THEN /\ fn_out' = << "raises", "WebDriverException" >>
                  /\ url \in {BLANK_URL, wurl[PopupOf(name)]}
                  /\ wurl' = [wurl EXCEPT ![PopupOf(name)] = url]
                  /\ UNCHANGED << handles, opened, wname >>
             ELSE /\ fn_out' = << "returns", None >>
                  /\ url \in {BLANK_URL, wurl[cur], targetUrl}
                  /\ OpenNamed(name, url)
    /\ UNCHANGED << argvars, mainvars, pollvars, session, cur, quit_calls, now, stepvars,
                    histvars, fetchvars, logvars, guivars, fn, fn_arg >>

WindowNext ==
    \/ render_html_in_window \/ submit_form_to_window \/ SubmitFormScript
    \/ EnvNavigate \/ EnvSessionDies

WindowSpec == WindowInit /\ [][WindowNext]_vars

(* ------------------------ the GUI (goyang_gui.py) ---------------------- *)
\* what schedule_reservation finds in the form (lines 170-195): input it
\* accepts, with a time of execution within the range of a timer interval
\* (2^31 - 1 ms, 24.8 days) or beyond it, and input it turns down
FormInputs == {"ok", "ok_far", "no_credentials", "no_such_court"}

\* QTimer.start(int(delay_seconds * 1000)) with an interval that is no C int:
\* the binding raises OverflowError, or it starts the timer with the
\* interval cut down
FarStartOutcomes == {"raises", "starts"}

\* QProcess.start and waitForStarted(5000): the process started, it failed
\* to start, or it was still starting when the wait gave up
StartOutcomes == {"started", "failed", "late"}

\* a client process that has started and has not finished
Running(p) == procs[p] \in {"running", "talked"}

\* the QTimer and the QProcess the next accepted schedule request creates
NextId == CHOOSE t \in ScheduleIds :
              timers[t] = "unused" /\ \A u \in ScheduleIds : u < t => timers[u] # "unused"

\* the modal dialog of line 274 is open: its event loop delivers timer and
\* process signals, and the buttons of the window take no clicks
StartFailedOpen == dialog = "start_failed_open"

GuiInit ==
    /\ Parked
    /\ NoFetch
    /\ NoCall
    /\ NoGui
    /\ NoLog

\* if self._scheduled_timer (line 166)
SchedulePending == scheduled_timer # NoTimer

\* the click handler of the schedule button: lines 242-245 create the timer,
\* keep it in self._scheduled_timer and start it, lines 247-248 switch the
\* buttons; a start that raises leaves the handler in between
schedule_reservation ==
    /\ ~ StartFailedOpen
    /\ \E form \in FormInputs, far_start \in FarStartOutcomes :
         IF SchedulePending
         THEN /\ dialog' = "already_pending"
              /\ UNCHANGED << scheduled_timer, schedule_button, cancel_button,
                              log_view, timers >>
         ELSE IF form \notin {"ok", "ok_far"}
         THEN /\ dialog' = "input_error"
              /\ UNCHANGED << scheduled_timer, schedule_button, cancel_button,
                              log_view, timers >>
         ELSE /\ \E t \in ScheduleIds : timers[t] = "unused"
              /\ scheduled_timer' = NextId
              /\ log_view' = log_view \o << << "schedule", NextId >>, << "command", NextId >> >>
              /\ dialog' = "none"
              /\ IF form = "ok_far" /\ far_start = "raises"
                 THEN /\ timers' = [timers EXCEPT ![NextId] = "unstarted"]
                      /\ UNCHANGED << schedule_button, cancel_button >>
                 ELSE /\ timers' = [timers EXCEPT ![NextId] = "active"]
                      /\ schedule_button' = FALSE
                      /\ cancel_button' = TRUE
    /\ UNCHANGED << process, procs, fetchvars, callvars, logvars, progvars >>

\* the click handler of the cancel button
cancel_schedule ==
    /\ ~ StartFailedOpen
    /\ IF scheduled_timer # NoTimer
       THEN /\ timers' = [timers EXCEPT ![scheduled_timer] = "stopped"]
            /\ scheduled_timer' = NoTimer
            /\ log_view' = Append(log_view, << "cancelled", scheduled_timer >>)
       ELSE UNCHANGED << timers, scheduled_timer, log_view >>
    /\ schedule_button' = TRUE
    /\ cancel_button' = FALSE
    /\ dialog' = "none"
    /\ UNCHANGED << process, procs, fetchvars, callvars, logvars, progvars >>

\* the single-shot timer t times out: run_process (lines 261-278) keeps a new
\* client process in self._process and starts it; when waitForStarted
\* returns false it opens the modal dialog of line 274, with self._process
\* still on that process
run_process ==
    /\ \E t \in ScheduleIds, outcome \in StartOutcomes :
         /\ timers[t] = "active"
         /\ timers' = [timers EXCEPT ![t] = "fired"]
         /\ process' = t
         /\ IF outcome = "started"
            THEN /\ procs' = [procs EXCEPT ![t] = "running"]
                 /\ log_view' = Append(log_view, << "started", t >>)
                 /\ dialog' = "none"
            ELSE /\ procs' = [procs EXCEPT ![t] = IF outcome = "failed" THEN "failed"
                                                   ELSE "starting"]
                 /\ dialog' = "start_failed_open"
                 /\ UNCHANGED log_view
    /\ scheduled_timer' = NoTimer
    /\ schedule_button' = TRUE
    /\ cancel_button' = FALSE
    /\ UNCHANGED << fetchvars, callvars, logvars, progvars >>

\* the dialog of line 274 is closed: run_process forgets the process (line
\* 275) and returns
run_process_failed ==
    /\ StartFailedOpen
    /\ process' = NoProcess
    /\ dialog' = "start_failed"
    /\ UNCHANGED << scheduled_timer, schedule_button, cancel_button, log_view, timers,
                    procs, fetchvars, callvars, logvars, progvars >>

\* a process that was still starting when waitForStarted gave up starts after
\* all, or fails to
late_start ==
    /\ \E p \in ScheduleIds, ok \in BOOLEAN :
         /\ procs[p] = "starting"
         /\ procs' = [procs EXCEPT ![p] = IF ok THEN "running" ELSE "failed"]
    /\ UNCHANGED << scheduled_timer, process, schedule_button, cancel_button, dialog,
                    log_view, timers, fetchvars, callvars, logvars, progvars >>

\* readyReadStandardOutput of process p: _read_process_output logs what it
\* reads from the process self._process refers to
read_process_output ==
    /\ \E p \in ScheduleIds :
         /\ procs[p] = "running"
         /\ procs' = [procs EXCEPT ![p] = "talked"]
         /\ log_view' = IF process = NoProcess THEN log_view
                        ELSE Append(log_view, << "output", process, p >>)
    /\ dialog' = IF StartFailedOpen THEN dialog ELSE "none"
    /\ UNCHANGED << scheduled_timer, process, schedule_button, cancel_button, timers,
                    fetchvars, callvars, logvars, progvars >>

\* finished of process p: _process_finished logs the exit code of the
\* process self._process refers to and forgets it
process_finished ==
    /\ \E p \in ScheduleIds :
         /\ Running(p)
         /\ procs' = [procs EXCEPT ![p] = "finished"]
         /\ log_view' = IF process = NoProcess THEN log_view
                        ELSE Append(log_view, << "exit", process, p >>)
    /\ process' = NoProcess
    /\ dialog' = IF StartFailedOpen THEN dialog ELSE "none"
    /\ UNCHANGED << scheduled_timer, schedule_button, cancel_button, timers,
                    fetchvars, callvars, logvars, progvars >>

GuiNext ==
    \/ schedule_reservation \/ cancel_schedule \/ run_process \/ run_process_failed
    \/ late_start \/ read_process_output \/ process_finished

GuiSpec == GuiInit /\ [][GuiNext]_vars

(* ------------------ functions of the module, one call ------------------ *)
\* the documents of at most MaxTags start tags
HtmlDocs == UNION { [1..n -> Tags] : n \in 0..MaxTags }

\* the results ensure_success can be given: a status, or no status at all
StatusInputs == Statuses \cup {1, 200, 302, 399, 404}
EnsureInputs ==
    { JsResult("status", st, << >>, "") : st \in StatusInputs } \cup { DoneError("") }
Steps == {"Login request", "Reservation request"}

CallInit ==
    /\ Parked
    /\ NoFetch
    /\ NoCall
    /\ NoGui
    /\ NoLog

\* ensure_success(step, result)
CallEnsureSuccess ==
    /\ fn = "none"
    /\ \E step \in Steps, result \in EnsureInputs :
         /\ fn_arg' = [step |-> step, result |-> result]
         /\ fn_out' = IF ensure_success(result)
                      THEN << "returns" >>
                      ELSE << "RuntimeError", step, result.status >>
    /\ fn' = "ensure_success"
    /\ UNCHANGED << fetchvars, logvars, guivars, progvars >>

\* extract_order_id(html)
CallExtractOrderId ==
    /\ fn = "none"
    /\ \E html \in HtmlDocs :
         /\ fn_arg' = html
         /\ fn_out' = IF extract_order_id(html) = None
                      THEN << "ValueError" >>
                      ELSE << "returns", extract_order_id(html) >>
    /\ fn' = "extract_order_id"
    /\ UNCHANGED << fetchvars, logvars, guivars, progvars >>

\* the trigger script run in a page, and main's checks of what it returns
CallTriggerScript ==
    /\ fn = "none"
    /\ \E page \in TriggerPages :
         /\ fn_arg' = page
         /\ fn_out' = IF trigger_script(page) \in {"error:", "notfound"}
                      THEN << "RuntimeError", trigger_script(page) >>
                      ELSE << "returns", trigger_script(page) >>
    /\ fn' = "trigger_script"
    /\ UNCHANGED << fetchvars, logvars, guivars, progvars >>

\* build_curl_command(method, url, headers, body)
CallBuildCurlCommand ==
    /\ fn = "none"
    /\ \E method \in Methods, headers \in HeaderMaps, body \in Bodies :
         /\ fn_arg' = [method |-> method, url |-> LOGIN_URL,
                       headers |-> headers, body |-> body]
         /\ fn_out' = [parts |-> curl_parts(method, LOGIN_URL, headers, body),
                       line |-> build_curl_command(method, LOGIN_URL, headers, body)]
    /\ fn' = "build_curl_command"
    /\ UNCHANGED << fetchvars, logvars, guivars, progvars >>

\* coerce_slot(parts)
CallCoerceSlot ==
    /\ fn = "none"
    /\ \E parts \in SlotLists :
         /\ fn_arg' = parts
         /\ fn_out' = << "returns", coerce_slot(parts) >>
    /\ fn' = "coerce_slot"
    /\ UNCHANGED << fetchvars, logvars, guivars, progvars >>

CallNext ==
    \/ CallEnsureSuccess \/ CallExtractOrderId \/ CallTriggerScript
    \/ CallBuildCurlCommand \/ CallCoerceSlot

CallSpec == CallInit /\ [][CallNext]_vars

(* ------------------------------ claims --------------------------------- *)
Rank(stage) == CHOOSE i \in 1..Len(Stages) : Stages[i] = stage
Entered(stage) == stage \in Range(trace)
Returned == pc = "done"

EarlyStages ==
    {"Launch", "Authenticate", "Reserve", "ExtractOrderId", "RenderReservation",
     "InjectPaymentFields", "TriggerPayment"}
ThroughPopup == EarlyStages \cup {"AwaitPopup"}

\* a request result whose status is missing or is 400 or more
BadStatus(result) ==
    result.kind # "none" /\ (result.status = NoStatus \/ result.status = 0 \/ result.status >= 400)

\* the document has an input tag whose name attribute is ordr_idxx
HasOrdrInput(html) ==
    \E i \in 1..Len(html) :
        /\ Lower(html[i].tag) = "input"
        /\ \E j \in 1..Len(html[i].attrs) :
             Lower(html[i].attrs[j][1]) = "name" /\ html[i].attrs[j][2] = "ordr_idxx"

\* the failures the exit-status contract lists
ListedFailure ==
    \/ ~ driver
    \/ BadStatus(login_result)
    \/ BadStatus(reservation_response)
    \/ failed.cause = "extract_order_id"
    \/ trigger_result \in {"notfound", "error:"}

\* C1 as stated: main returns 0 whenever no stage through AwaitPopup failed,
\* and 1 whenever one of the listed failures happened.
C1_ExitStatusAsStated ==
    Returned =>
        /\ failed.stage \notin ThroughPopup => exit_status = 0
        /\ ListedFailure => exit_status = 1

\* C1, amended: main returns 0 when no stage failed, the confirmation wait
\* included (a session error there ends the run with 1); it returns 1
\* whenever launch, a request's status check, the order-id extraction or the
\* payment trigger failed.
C1_ExitStatus ==
    Returned =>
        /\ failed.stage = "none" => exit_status = 0
        /\ ListedFailure => exit_status = 1
        /\ failed.stage = "AwaitConfirmation" => exit_status = 1 /\ failed.cause = "session"

C1_Witness ==
    /\ Returned
    /\ exit_status = 0
    /\ Entered("AwaitConfirmation")
    /\ payment_handle = None

\* C2: main returns only after the teardown; a launched session is closed
\* by then unless keep_browser_open, whatever stage failed; with
\* keep_browser_open the run never closes it.
C2_Teardown ==
    /\ Returned => trace[Len(trace)] = "Teardown"
    /\ (Returned /\ driver /\ ~ keep_browser_open) => (quit_calls = 1 /\ session # "open")
    /\ keep_browser_open => (quit_calls = 0 /\ session # "closed")
    /\ ~ driver => quit_calls = 0

C2_Witness ==
    /\ Returned
    /\ exit_status = 1
    /\ failed.stage = "TriggerPayment"
    /\ ~ keep_browser_open
    /\ session = "closed"

\* C3: the stages are entered in the fixed order, each at most once, none
\* after a later one, and the teardown is the last.
C3_StageOrder ==
    /\ \A i, j \in 1..Len(trace) : i < j => Rank(trace[i]) < Rank(trace[j])
    /\ \A i \in 1..Len(trace) : trace[i] \in Range(Stages)
    /\ Returned => trace[Len(trace)] = "Teardown"

C3_Witness ==
    /\ Returned
    /\ trace = Stages

\* C4 as stated: an exception raised in any stage from Launch through
\* TriggerPayment ends the run.
C4_EarlyFailuresFatalAsStated ==
    (raised.kind # "none" /\ raised.stage \in EarlyStages) =>
        (pc = "teardown" /\ exc # "none")

\* C4, amended: an exception raised in a stage from Launch through
\* TriggerPayment ends the run with exit status 1 and no later stage but the
\* teardown, except the time-out of RenderReservation's element wait, which
\* is caught; the other caught exceptions through AwaitPopup are the popup
\* time-out, the ready-state wait and a window a poll cannot switch to or
\* cannot read the name or the URL of.
C4_EarlyFailuresFatal ==
    /\ (/\ raised.kind # "none"
        /\ raised.stage \in EarlyStages
        /\ ~ (raised.stage = "RenderReservation" /\ raised.kind = "TimeoutException"))
            => (pc = "teardown" /\ exc # "none" /\ ~ raised.caught)
    /\ exc # "none" =>
         /\ pc \in {"teardown", "done"}
         /\ \A i \in 1..Len(trace) :
              trace[i] = "Teardown" \/ Rank(trace[i]) <= Rank(failed.stage)
         /\ Returned => exit_status = 1
    /\ (raised.caught /\ raised.stage \in ThroughPopup) =>
         raised.cause \in {"element_wait", "popup_deadline", "ready_state", "switch",
                           "window_name", "current_url"}

C4_Witness ==
    /\ raised.stage = "RenderReservation"
    /\ raised.kind = "TimeoutException"
    /\ raised.caught
    /\ pc = "inject"

PopupLine == << "stderr", "Failed to detect payment popup", "TimeoutError" >>

\* C5 as stated: with the trigger done and no new window matched, the run
\* exits 0.
C5_PopupTimeoutAsStated ==
    (Returned /\ payment_result = "triggered" /\ payment_handle = None) =>
        exit_status = 0

\* C5, amended: while the session stays available, a popup wait that found
\* no matching window ends in the time-out that main catches and logs, the
\* payment-window handle stays unset, and the run exits 0.
C5_PopupTimeout ==
    /\ (pc = "order_gate" /\ payment_handle = None) =>
         /\ raised = [stage |-> "AwaitPopup", kind |-> "TimeoutError",
                      cause |-> "popup_deadline", caught |-> TRUE]
         /\ printed = << PopupLine >>
         /\ exc = "none"
    /\ (Returned /\ payment_result = "triggered" /\ payment_handle = None
            /\ failed.cause # "session") =>
         exit_status = 0

C5_Witness ==
    /\ Returned
    /\ payment_result = "triggered"
    /\ payment_handle = None
    /\ opened > 0
    /\ exit_status = 0

\* C6: no run ends in failure because it switched to a handle whose window
\* had been closed.
C6_ClosedWindowSwitchIsSoft ==
    ~ (exc # "none" /\ failed.cause = "NoSuchWindow")

\* C7: after a reservation response of status 400 or more the stages from
\* ExtractOrderId to TriggerPayment are never entered, the trigger script is
\* never run, and main returns 1.
C7_ReservationErrorStops ==
    (reservation_response.kind = "status" /\ reservation_response.status >= 400) =>
        /\ \A st \in {"ExtractOrderId", "RenderReservation", "InjectPaymentFields",
                      "TriggerPayment"} : ~ Entered(st)
        /\ trigger_result = None
        /\ pc \in {"teardown", "done"}
        /\ Returned => exit_status = 1

C7_Witness ==
    /\ Returned
    /\ reservation_response.status = 500
    /\ exit_status = 1

\* C8: when the reservation page has no input named ordr_idxx, the
\* extraction fails, main returns 1, and neither the field injection nor the
\* payment trigger runs.
C8_MissingOrderIdStops ==
    (/\ Entered("ExtractOrderId")
     /\ ~ HasOrdrInput(reservation_response.text)) =>
        /\ order_id = None
        /\ failed = [stage |-> "ExtractOrderId", cause |-> "extract_order_id"]
        /\ ~ Entered("InjectPaymentFields")
        /\ ~ Entered("TriggerPayment")
        /\ trigger_result = None
        /\ Returned => exit_status = 1

C8_Witness ==
    /\ Returned
    /\ Entered("ExtractOrderId")
    /\ Len(reservation_response.text) > 0
    /\ ~ HasOrdrInput(reservation_response.text)
    /\ exit_status = 1

\* C9: await_order_result runs only in a run whose skip_order_wait is false.
C9_OrderWaitOnlyIfRequested ==
    (Entered("AwaitConfirmation")
        \/ pc \in {"or_while", "or_for", "or_url", "or_restore", "or_return"})
        => ~ skip_order_wait

C9_Witness ==
    /\ pc = "or_for"
    /\ ~ skip_order_wait
    /\ idx <= Len(current_handles)

YieldsStatus == f_result.kind = "returned" /\ f_result.value.kind = "status"

\* C11 as stated: a call yields a status code only if the response arrived
\* no later than the timeout argument.
C11_NoStatusAfterTimeoutAsStated ==
    YieldsStatus => f_done[1].at <= f_timeout

\* C11, amended: a call whose response has not arrived when the abort timer
\* fires, max(timeout, 1 second) after the fetch started, ends with an error
\* outcome and never yields a status code: once the timer has fired the
\* script has reported the abort at that moment and nothing else, the caller
\* has no status and, when the call is over, an exception; a call whose
\* script or page is gone ends with an exception as well.
C11_NoStatusAfterTimeout ==
    /\ YieldsStatus =>
         f_done[1].at * MsPerTick <=
             (IF f_timeout * MsPerTick > 1000 THEN f_timeout * MsPerTick ELSE 1000)
    /\ f_timer = "fired" =>
         /\ ~ YieldsStatus
         /\ f_result.kind # "none" => f_result.kind = "raised"
         /\ f_fetch # "thrown" =>
              /\ f_fetch = "rejected"
              /\ Len(f_done) = 1
              /\ f_done[1].result = DoneError("AbortError")
              /\ f_done[1].at * MsPerTick = timeout_ms(f_timeout)
    /\ (f_fetch \in {"pending", "headers", "settled", "rejected"}
          /\ f_clock * MsPerTick > timeout_ms(f_timeout)) => Len(f_done) = 1
    /\ f_fetch = "gone" => f_result = DriverError
    /\ (f_fetch = "thrown" /\ f_result.kind # "none") => f_result = DriverError

C11_Witness ==
    /\ f_timeout = DefaultTimeoutTicks
    /\ f_timer = "fired"
    /\ f_clock * MsPerTick = timeout_ms(f_timeout)
    /\ f_result.kind = "raised"

\* a result with the status and text populated and no error, or with a
\* non-empty error and neither status nor text
TwoVariant(result) ==
    \/ /\ result.kind = "status"
       /\ result.status \in Statuses
       /\ result.error = ""
    \/ /\ result.kind = "error"
       /\ result.status = NoStatus
       /\ result.text = << >>
       /\ result.error # ""

\* the script has nothing left to do
ScriptOver == f_fetch \notin {"none", "pending", "headers"}

\* C12 as stated: the script reports its outcome exactly once, with a result
\* of one of the two variants.
C12_ReportsOnceAsStated ==
    /\ Len(f_done) <= 1
    /\ ScriptOver => Len(f_done) = 1
    /\ \A i \in 1..Len(f_done) : TwoVariant(f_done[i].result)

\* C12, amended: whatever the order of the timer firing, the headers
\* arriving and the body being read, the script calls done at most once,
\* exactly once when the fetch it started has settled or was rejected, and
\* with a result that is either {status, text} or {error}; a script whose
\* header map is rejected before the fetch starts, or whose page goes away,
\* calls done not at all, and the call raises.
C12_ReportsOnce ==
    /\ Len(f_done) <= 1
    /\ (f_fetch \in {"settled", "rejected"}) <=> (Len(f_done) = 1)
    /\ f_fetch \in {"thrown", "gone"} =>
         /\ Len(f_done) = 0
         /\ f_result.kind # "none" => f_result = DriverError
    /\ \A i \in 1..Len(f_done) : TwoVariant(f_done[i].result)
    /\ (f_timer = "fired" /\ f_fetch # "thrown") => f_fetch = "rejected"

C12_Witness ==
    /\ f_timer = "fired"
    /\ Len(f_done) = 1
    /\ f_done[1].result.error = "AbortError"
    /\ f_timeout = 0
    /\ f_done[1].at = TicksPerSecond

(* --------------------- claims on single functions ---------------------- *)
CalledEnsure == fn = "ensure_success"

\* C13 as stated: ensure_success raises exactly when the status is missing
\* or is 400 or more.
C13_EnsureSuccessAsStated ==
    CalledEnsure =>
        ((fn_out[1] = "RuntimeError") <=>
            (fn_arg.result.kind # "status" \/ fn_arg.result.status >= 400))

\* C13, amended: ensure_success raises, naming the step, exactly when the
\* status is missing, is 0, or is 400 or more; every status from 1 to 399
\* passes.
C13_EnsureSuccess ==
    CalledEnsure =>
        /\ (fn_out[1] = "RuntimeError") <=>
              \/ fn_arg.result.kind # "status"
              \/ fn_arg.result.status = 0
              \/ fn_arg.result.status >= 400
        /\ fn_out[1] = "RuntimeError" => fn_out[2] = fn_arg.step
        /\ (fn_arg.result.kind = "status" /\ fn_arg.result.status \in 1..399) =>
              fn_out = << "returns" >>

C13_Witness ==
    /\ CalledEnsure
    /\ fn_arg.result.kind = "status"
    /\ fn_arg.result.status = 399
    /\ fn_out = << "returns" >>

CalledExtract == fn = "extract_order_id"

\* the tag is an input, in any letter case, whose name is ordr_idxx
IsOrdrInput(tag) ==
    /\ Lower(tag.tag) = "input"
    /\ \E j \in 1..Len(tag.attrs) :
         Lower(tag.attrs[j][1]) = "name" /\ tag.attrs[j][2] = "ordr_idxx"

\* the tag carries a value attribute, in any letter case, equal to v
HasValue(tag, v) ==
    \E j \in 1..Len(tag.attrs) : Lower(tag.attrs[j][1]) = "value" /\ tag.attrs[j][2] = v

OrderValues == {"ORD1", "ORD2", "ORD3", "ORD4", "4000", ""}

\* C14 as stated: for a document with an ordr_idxx input of value V at any
\* position, extract_order_id returns V.
C14_ExtractAsStated ==
    CalledExtract =>
        \A i \in 1..Len(fn_arg), v \in OrderValues :
            (IsOrdrInput(fn_arg[i]) /\ HasValue(fn_arg[i], v)) =>
                fn_out = << "returns", v >>

\* C14, amended: for a document with an ordr_idxx input (any tag-name case,
\* any extra attributes) of non-empty value V at any position and no later
\* ordr_idxx input, extract_order_id returns V.
C14_Extract ==
    CalledExtract =>
        \A i \in 1..Len(fn_arg), v \in OrderValues \ {""} :
            (/\ IsOrdrInput(fn_arg[i])
             /\ HasValue(fn_arg[i], v)
             /\ \A k \in (i + 1)..Len(fn_arg) : ~ IsOrdrInput(fn_arg[k])) =>
                fn_out = << "returns", v >>

C14_Witness ==
    /\ CalledExtract
    /\ fn_arg = << TagOrd2, TagForm >>
    /\ fn_out = << "returns", "ORD2" >>

CalledTrigger == fn = "trigger_script"

\* some clickable element whose onclick text contains "pay" can be clicked
SomePayClickWorks(els) ==
    \E i \in 1..Len(els) : els[i].pay /\ els[i].click = "ok"

\* the outcome of probing every candidate in order and using the first that
\* executes without an exception
FirstWorkingCandidate(page) ==
    IF "ok" \in {page.fnPay, page.fn_pay, page.pay} THEN "function"
    ELSE IF SomePayClickWorks(page.clickable) THEN "click"
    ELSE "notfound"

\* C15: the trigger uses the first candidate, in the order fnPay, fn_pay,
\* pay, then the clickable elements with "pay" in their onclick text, that
\* executes without an exception, passing over the absent and the throwing
\* ones; it fails only when no candidate executes.
C15_TriggerProbing ==
    CalledTrigger =>
        IF FirstWorkingCandidate(fn_arg) = "notfound"
        THEN fn_out[1] = "RuntimeError"
        ELSE fn_out = << "returns", FirstWorkingCandidate(fn_arg) >>

(* ------------------- claims on the two polling loops ------------------- *)
\* the window is new for this wait and looks like the payment popup
NewAndMatching(h) ==
    /\ h \notin Range(existing_handles)
    /\ h \in Range(handles)
    /\ (wname[h] = "KCPPayPopup" \/ wurl[h] = PAYMENT_POP_URL)

\* the poll reads the payment host in the URL of the window it switched to
ReadsKcpUrl == WindowOpen(cur) /\ wurl[cur] = PAYMENT_POP_URL

\* C16: wait_for_payment_window never picks or returns a handle of the
\* pre-trigger set; the handle it picks is the one under inspection, is new,
\* and the poll read the target name or a URL with the payment host from its
\* window; the poll passes over a handle of its enumeration only when that
\* handle is known, cannot be switched to, or gave neither the name nor such
\* a URL, so the first new matching one wins.
C16_FirstNewMatch ==
    /\ [](/\ target_handle # None => target_handle \notin Range(existing_handles)
          /\ payment_handle # None => payment_handle \notin Range(existing_handles))
    /\ [][/\ (pc = "pw_name" /\ window_name' = TARGET_NAME) =>
               /\ cur = current_handles[idx]
               /\ WindowOpen(cur)
               /\ wname[cur] = TARGET_NAME
          /\ (pc = "pw_name" /\ pc' # pc /\ window_name' # TARGET_NAME) =>
               ~ (WindowOpen(cur) /\ wname[cur] = TARGET_NAME)
          /\ target_handle' # target_handle /\ target_handle' # None =>
               /\ pc = "pw_url"
               /\ target_handle' = current_handles[idx]
               /\ cur = current_handles[idx]
               /\ cur \notin Range(existing_handles)
               /\ (window_name = TARGET_NAME \/ ReadsKcpUrl)
          /\ (pc = "pw_for" /\ idx' = idx + 1) =>
               (current_handles[idx] \in Range(existing_handles)
                   \/ ~ WindowOpen(current_handles[idx]))
          /\ (pc = "pw_url" /\ idx' = idx + 1) =>
               (window_name # TARGET_NAME /\ ~ ReadsKcpUrl)
          /\ (pc \in {"pw_for", "pw_name", "pw_url"} /\ pc' = "pw_while") =>
               (pc = "pw_for" /\ idx > Len(current_handles))
          /\ (pc = "pw_ready" /\ payment_handle' # None) => payment_handle' = target_handle
         ]_vars

C16_Witness ==
    /\ pc = "pw_ready"
    /\ existing_handles = << "w0" >>
    /\ current_handles = << "w0", "w1", "w2" >>
    /\ target_handle = "w1"
    /\ NewAndMatching("w1")
    /\ NewAndMatching("w2")

InOrderWait == pc \in {"or_while", "or_for", "or_url", "or_restore", "or_return"}

\* the poll has switched to an open window whose URL has the confirmation path
PollSeesConfirmation ==
    /\ pc = "or_url"
    /\ cur = current_handles[idx]
    /\ WindowOpen(cur)
    /\ wurl[cur] = ORDER_RESULT_URL

\* C17: await_order_result hands back a URL only if a poll read it from an
\* open window and it contains the confirmation path; the first poll that
\* sees such a window records the URL, after which no window is inspected
\* any more; none is handed back only if no poll saw such a window.
C17_ConfirmationUrl ==
    /\ [](/\ (InOrderWait /\ detected_url # None) =>
               (detected_url = ORDER_RESULT_URL /\ pc \notin {"or_for", "or_url"})
          /\ order_result_url # None => order_result_url = ORDER_RESULT_URL)
    /\ [][/\ (InOrderWait /\ detected_url = None /\ detected_url' # None) =>
               (PollSeesConfirmation /\ detected_url' = wurl[cur])
          /\ (PollSeesConfirmation /\ (pc' # pc \/ idx' # idx)) =>
               detected_url' = ORDER_RESULT_URL
          /\ (InOrderWait /\ detected_url # None /\ pc # "or_return") =>
               (detected_url' = detected_url /\ pc' \notin {"or_for", "or_url"})
          /\ (pc = "or_return" /\ pc' # pc) => order_result_url' = detected_url
          /\ (pc # "or_return" \/ pc' = pc) => order_result_url' = order_result_url
         ]_vars

C17_Witness ==
    /\ pc = "or_restore"
    /\ detected_url = ORDER_RESULT_URL
    /\ cur = "w1"
    /\ wurl[MAIN_HANDLE] # ORDER_RESULT_URL

\* the window the restore has to pick, from the windows open right now
PreferredWindow ==
    IF payment_handle # None /\ payment_handle \in Range(handles) THEN payment_handle
    ELSE IF main_window_handle # None /\ main_window_handle \in Range(handles)
         THEN main_window_handle
         ELSE None

PollFinished ==
    /\ session = "open"
    /\ exc = "none"
    /\ \/ pc = "order_gate" /\ payment_handle = None
       \/ pc = "teardown" /\ Entered("AwaitConfirmation")

\* C19, for the runs in which the main window is still open: when
\* wait_for_payment_window or await_order_result finishes, the session's
\* current window is a window that is still open, whatever windows the
\* pages opened and closed.
C19_CurrentWindowOpen ==
    (PollFinished /\ MAIN_HANDLE \in Range(handles)) => cur \in Range(handles)

(* -------------------- claims on the workflow state --------------------- *)
\* C20: the order id, the main window handle, the payment window handle
\* and the confirmation URL are unset when main starts, and once one of
\* them is set no step changes it; the order id of the summary is the one
\* extracted from the reservation response.
C20_WorkflowStateSetOnce ==
    /\ [](/\ pc = "launch" =>
               /\ order_id = None
               /\ main_window_handle = None
               /\ payment_handle = None
               /\ order_result_url = None
          /\ order_id # None =>
               /\ reservation_response.kind = "status"
               /\ order_id = extract_order_id(reservation_response.text)
          /\ (Returned /\ exit_status = 0) =>
               /\ order_id # None
               /\ printed[1] = << "stdout", "Reservation verified with id",
                                  extract_order_id(reservation_response.text) >>)
    /\ [][/\ order_id # None => order_id' = order_id
          /\ main_window_handle # None => main_window_handle' = main_window_handle
          /\ payment_handle # None => payment_handle' = payment_handle
          /\ order_result_url # None => order_result_url' = order_result_url
          /\ reservation_response.kind # "none" =>
               reservation_response' = reservation_response
         ]_vars

C20_Witness ==
    /\ Returned
    /\ exit_status = 0
    /\ order_id = "ORD1"
    /\ main_window_handle = MAIN_HANDLE
    /\ payment_handle = "w1"
    /\ order_result_url = ORDER_RESULT_URL

\* the run of LogSpec is over
RunEnded == log_pc \in {"ended", "raised"}

\* the text of one line per call, in the order of the calls
RECURSIVE LinesOf(_)
LinesOf(calls) ==
    IF calls = << >> THEN ""
    ELSE LinesOf(SubSeq(calls, 1, Len(calls) - 1))
         \o calls[Len(calls)].command \o "\n"

\* what the write of one call has put on the file: the line, the leading
\* part of it that a failing write got out, or nothing
LeftBy(call) ==
    CASE call.io = "ok" -> call.command \o "\n"
      [] call.io = "OSError_write_part" -> "curl "
      [] OTHER -> ""

RECURSIVE TextOf(_)
TextOf(calls) ==
    IF calls = << >> THEN ""
    ELSE TextOf(SubSeq(calls, 1, Len(calls) - 1)) \o LeftBy(calls[Len(calls)])

\* C21 as stated: after a run with the log enabled the file is its content
\* before the run followed by one line for every browser_fetch call issued, in
\* order; with the log disabled the file is untouched.
C21_AuditLogAsStated ==
    RunEnded =>
        IF CURL_LOG_FILE # None
        THEN log_file.text = log_before.text \o LinesOf(issued)
        ELSE log_file = log_before

\* C21, amended: after a run with the log enabled the file exists and is its
\* content before the run followed, for every browser_fetch call issued and
\* in the order of the calls, by the line of the call if its write went
\* through, and by nothing or a leading part of the line if the write failed;
\* a write that fails with an OS error is passed over and the run goes on, a
\* command without UTF-8 encoding raises and is the last call of the run;
\* with the log disabled (empty path), and when the log could not be set up,
\* the file is untouched.
C21_AuditLog ==
    /\ RunEnded =>
         IF CURL_LOG_FILE # None
         THEN /\ log_file.exists
              /\ log_file.text = log_before.text \o TextOf(issued)
         ELSE log_file = log_before
    /\ \A i \in 1..Len(issued) :
         /\ (CURL_LOG_FILE # None /\ issued[i].io = "UnicodeEncodeError") =>
              (i = Len(issued) /\ log_pc = "ended")
         /\ (i < Len(issued) /\ CURL_LOG_FILE # None) =>
              issued[i].io \in {"ok", "OSError_open", "OSError_write_none",
                                "OSError_write_part"}
    /\ log_pc = "raised" => (CURL_LOG_FILE = None /\ issued = << >>)

C21_Witness ==
    /\ RunEnded
    /\ CURL_LOG_FILE # None
    /\ log_before.text = OldLine
    /\ Len(issued) = 2
    /\ issued[1].io = "OSError_write_part"
    /\ issued[2].io = "ok"
    /\ log_file.text # log_before.text \o LinesOf(issued)

CalledBuildCurl == fn = "build_curl_command"

\* the arguments of the -H options of a command, in order
HeaderArgs(parts) ==
    LET at == { i \in 2..Len(parts) : parts[i - 1] = "-H" }
        nth(k) == CHOOSE i \in at : Cardinality({ j \in at : j < i }) = k - 1
    IN  [ k \in 1..Cardinality(at) |-> parts[nth(k)] ]

\* a header name that is host or content-length in some letter case
DroppedName(key) ==
    key \in {"Host", "host", "HOST", "Content-Length", "content-length"}

\* the -H argument a header is written as
HeaderArg(h) == quote_for_shell(h[1] \o ": " \o h[2])

\* C22: in the line build_curl_command produces no header named host or
\* content-length, in any letter case, appears, and every other header with a
\* value appears exactly once, in the order of the header map.
C22_HeadersOfCommand ==
    CalledBuildCurl =>
        LET headers == fn_arg.headers
            args == HeaderArgs(fn_out.parts)
            kept == { i \in 1..Len(headers) :
                        headers[i][2] # None /\ ~ DroppedName(headers[i][1]) }
            pos(i) == Cardinality({ j \in kept : j <= i })
        IN  /\ \A i \in 1..Len(headers) :
                 DroppedName(headers[i][1]) /\ headers[i][2] # None
                     => \A k \in 1..Len(args) : args[k] # HeaderArg(headers[i])
            /\ Len(args) = Cardinality(kept)
            /\ \A i \in kept : args[pos(i)] = HeaderArg(headers[i])
            /\ fn_out.line = Join(fn_out.parts, " ")

C22_Witness ==
    /\ CalledBuildCurl
    /\ Len(fn_arg.headers) = 2
    /\ fn_arg.headers[1] = << "HOST", "a" >>
    /\ fn_arg.headers[2] = << "X-Host", "it's" >>
    /\ fn_out.line = "curl -X POST -H 'X-Host: it'\"'\"'s' 'https://www.gytennis.or.kr/Login'"

CalledCoerceSlot == fn = "coerce_slot"

\* the tokens with a '|' before every token but the first
RECURSIVE JoinedWithBar(_)
JoinedWithBar(parts) ==
    IF Len(parts) = 1 THEN parts[1]
    ELSE JoinedWithBar(SubSeq(parts, 1, Len(parts) - 1)) \o "|" \o parts[Len(parts)]

\* C23: coerce_slot returns the single token of a list of one token unchanged,
\* and the tokens of a longer list joined with '|' in input order.
C23_CoerceSlot ==
    CalledCoerceSlot =>
        /\ fn_out[1] = "returns"
        /\ Len(fn_arg) = 1 => fn_out[2] = fn_arg[1]
        /\ Len(fn_arg) > 1 => fn_out[2] = JoinedWithBar(fn_arg)
        /\ Len(fn_arg) = 2 => fn_out[2] = fn_arg[1] \o "|" \o fn_arg[2]

C23_Witness ==
    /\ CalledCoerceSlot
    /\ fn_arg = << "0900", "a|b", "1000" >>
    /\ fn_out = << "returns", "0900|a|b|1000" >>

InPopupWait == pc \in {"pw_while", "pw_for", "pw_name", "pw_url", "pw_ready"}

\* C24: both polling loops terminate; a poll starts only before the deadline;
\* at its loop test after the deadline wait_for_payment_window raises its
\* timeout and hands back no handle, and await_order_result with nothing
\* detected leaves its loop and returns none.
C24_PollingTerminates ==
    /\ InPopupWait ~> ~ InPopupWait
    /\ InOrderWait ~> ~ InOrderWait
    /\ [][ (pc = "pw_while" /\ pc' = "pw_for") => now < deadline ]_vars
    /\ [][ (pc = "or_while" /\ pc' = "or_for") => now < deadline ]_vars
    /\ [][ (pc = "pw_while" /\ pc' # pc /\ now >= deadline)
              => /\ raised'.kind = "TimeoutError"
                 /\ raised'.caught
                 /\ pc' = "order_gate"
                 /\ payment_handle' = None ]_vars
    /\ [][ (pc = "or_while" /\ pc' # pc /\ now >= deadline /\ detected_url = None)
              => pc' = "or_restore" /\ detected_url' = None ]_vars
    /\ [][ (pc = "or_return" /\ pc' # pc) => order_result_url' = detected_url ]_vars

\* a run in which both loops gave up at their deadlines after polling
C24_Witness ==
    /\ pc = "teardown"
    /\ exc = "none"
    /\ Entered("AwaitConfirmation")
    /\ timeout > 0
    /\ payment_handle = None
    /\ order_result_url = None
    /\ now >= timeout + order_wait_timeout * TicksPerSecond

\* C25: once a window has been matched, wait_for_payment_window returns its
\* handle whatever the ready-state wait does: complete, timed out, or failed
\* with a driver error; no outcome of the wait reaches main as an exception.
C25_ReadyWaitTolerated ==
    [][ (pc = "pw_ready" /\ pc' # pc)
           => /\ target_handle # None
              /\ pc' = "pw_switch"
              /\ payment_handle' = target_handle
              /\ exc' = "none"
              /\ raised' # NoRaise =>
                    /\ raised'.caught
                    /\ raised'.cause = "ready_state"
                    /\ raised'.kind \in {"TimeoutException", "WebDriverException"} ]_vars

\* the handle was returned after the ready-state wait failed on a dead session
C25_Witness ==
    /\ pc = "pw_switch"
    /\ payment_handle = "w1"
    /\ raised # NoRaise
    /\ raised.kind = "WebDriverException"
    /\ raised.cause = "ready_state"
    /\ session # "open"

\* the abort timer fired and the script reported the abort
Aborted ==
    /\ f_timer = "fired"
    /\ Len(f_done) = 1
    /\ f_done[1].result.kind = "error"

\* C26 as stated: for every timeout t the abort timer goes off t seconds
\* after the fetch started, and a request without response ends in an error
\* result at that moment.
C26_TimerArmedForTimeoutAsStated ==
    f_timer = "fired" => (Aborted /\ f_done[1].at = f_timeout)

\* the time the timer is armed for, in ticks: timeout_ms of line 417
ArmedTicks == IF f_timeout >= TicksPerSecond THEN f_timeout ELSE TicksPerSecond

\* C26: for every timeout t the abort timer is armed for t seconds, but for
\* no less than one second: it goes off at max(t, 1) seconds and at no other
\* time, and a request without response ends in an error result at that
\* moment; browser_fetch raises it as RuntimeError unless the script timeout
\* of the driver, which is no later than the timer then, has ended the call.
C26_TimerArmedForTimeout ==
    /\ [](/\ (f_timer = "fired" /\ f_fetch # "thrown") =>
                (Aborted /\ f_done[1].at = ArmedTicks)
          /\ f_timer = "armed" => f_clock <= ArmedTicks
          /\ (f_fetch \in {"pending", "headers"}) => f_clock <= ArmedTicks
          /\ (Aborted /\ f_result.kind # "none") =>
                \/ f_result = [kind |-> "raised", exc |-> "Exception", value |-> NoResult]
                \/ f_result = DriverError /\ ScriptTimeoutTicks <= ArmedTicks)
    /\ [][(f_timer' = "fired" /\ f_timer # "fired") => f_clock = ArmedTicks]_vars

C26_Witness ==
    /\ f_timeout = 1
    /\ Aborted
    /\ f_done[1].at = TicksPerSecond
    /\ f_result.kind = "raised"

\* wait_for_payment_window with main running on
PollLiveSpec ==
    PollSpec /\ WF_vars(PwEnter \/ PwWhile \/ PwFor \/ PwName \/ PwUrl \/ PwReady)

\* the window is open in a live session, new for this wait, and matches
SteadyMatch(h) == SessionUp /\ NewAndMatching(h)

\* the loop test is about to start a poll
PollStarts == pc = "pw_while" /\ now < deadline

\* C27: the known-handle set stays what it was at the call; every poll lists
\* all open windows and inspects each listed new window that can be switched
\* to, whether or not an earlier poll inspected it; and if a new window
\* matches from the start of a poll on, a handle is returned, no timeout.
C27_NewWindowsReinspected ==
    /\ [][ (InPopupWait /\ pc' # "pw_enter") => existing_handles' = existing_handles ]_vars
    /\ [][ (pc = "pw_while" /\ pc' = "pw_for")
              => current_handles' = handles /\ idx' = 1 ]_vars
    /\ [][ (pc \in {"pw_for", "pw_name", "pw_url"} /\ pc' = "pw_while")
              => (pc = "pw_for" /\ idx > Len(current_handles)) ]_vars
    /\ [][ (pc \in {"pw_for", "pw_url"} /\ idx' # idx) => idx' = idx + 1 ]_vars
    /\ [][ (/\ pc = "pw_for"
            /\ (pc' # pc \/ idx' # idx)
            /\ idx <= Len(current_handles)
            /\ current_handles[idx] \notin Range(existing_handles)
            /\ WindowOpen(current_handles[idx]))
              => (pc' = "pw_name" /\ idx' = idx /\ cur' = current_handles[idx]) ]_vars
    /\ \A h \in AllHandles :
         [](PollStarts /\ [] SteadyMatch(h) => <>(payment_handle # None))

\* a window that an earlier poll switched to and found not matching is about
\* to be inspected again, and matches now
C27_Witness ==
    /\ pc = "pw_for"
    /\ now > 0
    /\ existing_handles = << "w0" >>
    /\ current_handles = << "w0", "w1" >>
    /\ idx = 2
    /\ cur = "w1"
    /\ SteadyMatch("w1")

\* C28: from the match to the return of wait_for_payment_window the
\* session's current window is the matched window, a new one and never the
\* main window: the switch that inspected it was the last, the ready-state
\* wait runs there, and the handle returned is the current window.
C28_ReturnsCurrentWindow ==
    /\ pc \in {"pw_name", "pw_url"} => cur = current_handles[idx]
    /\ pc = "pw_ready" =>
         /\ target_handle # None
         /\ cur = target_handle
         /\ cur \notin Range(existing_handles)
         /\ cur # main_window_handle
    /\ (pc = "pw_switch" /\ payment_handle # None) =>
         /\ cur = payment_handle
         /\ cur \notin Range(existing_handles)

\* the second new window was returned, the first one inspected before it
C28_Witness ==
    /\ pc = "pw_switch"
    /\ payment_handle = "w2"
    /\ cur = "w2"
    /\ existing_handles = << "w0" >>
    /\ "w1" \in Range(handles)

(* --------------------- claims on the end of the run -------------------- *)
\* launch_browser raised: main never had a session
LaunchFailed == failed.stage = "Launch" /\ failed.cause = "launch_browser"

\* C29: driver.quit() is called at most once in a run, and only by the
\* finally clause, after which main performs no step on the session (nothing
\* of the run's state changes any more); a run whose launch failed never
\* calls it.
C29_ClosedOnce ==
    /\ [](/\ quit_calls <= 1
          /\ quit_calls = 1 => (pc = "done" /\ driver /\ ~ keep_browser_open)
          /\ session = "closed" => quit_calls = 1
          /\ LaunchFailed => (~ driver /\ quit_calls = 0 /\ session = "none"))
    /\ [][ pc # "done" ]_vars
    /\ [][ quit_calls' # quit_calls => (pc = "teardown" /\ quit_calls' = 1) ]_vars

\* a failed run closed its session on the way out
C29_Witness ==
    /\ Returned
    /\ exit_status = 1
    /\ quit_calls = 1
    /\ session = "closed"
    /\ Entered("TriggerPayment")

\* main returned 0
Success == Returned /\ exit_status = 0

\* the latest step printed the summary line with the order id
SummaryPrinted ==
    \E i \in 1..Len(printed) : printed[i][2] = "Reservation verified with id"

\* both responses carried a status from 1 to 399, an order id was extracted,
\* and the trigger script reported a call or a click
AllStagesPassed ==
    /\ login_result.kind = "status"
    /\ login_result.status \in 1..399
    /\ reservation_response.kind = "status"
    /\ reservation_response.status \in 1..399
    /\ order_id # None
    /\ order_id # ""
    /\ trigger_result \in {"function", "click"}

\* C30: a run that returns 0 had a login and a reservation response with a
\* status from 1 to 399, a non-empty order id and a trigger result of
\* function or click; the summary line with the order id is printed by such
\* runs only, and carries that order id.
C30_SuccessMeansAllStages ==
    /\ Success => AllStagesPassed
    /\ SummaryPrinted =>
         /\ Success
         /\ AllStagesPassed
         /\ printed[1] = << "stdout", "Reservation verified with id", order_id >>
    /\ Success => SummaryPrinted

\* a successful run whose trigger was a click and whose popup never came
C30_Witness ==
    /\ Success
    /\ SummaryPrinted
    /\ trigger_result = "click"
    /\ order_id = "ORD2"
    /\ payment_handle = None

(* ------------------ claims on the order id, continued ------------------ *)
\* the positions of the ordr_idxx inputs of a document
OrdrInputs(html) == { i \in 1..Len(html) : IsOrdrInput(html[i]) }

\* the last of them in document order
LastOrdrInput(html) ==
    CHOOSE i \in OrdrInputs(html) : \A k \in OrdrInputs(html) : k <= i

\* C31: for a document with one or more ordr_idxx inputs, extract_order_id
\* returns the value of the last of them in document order, and fails when
\* that tag has no value attribute or an empty value, whatever values the
\* earlier ones carry.
C31_LastTagWins ==
    (CalledExtract /\ OrdrInputs(fn_arg) # {}) =>
        LET last == fn_arg[LastOrdrInput(fn_arg)]
        IN  /\ \A v \in OrderValues \ {""} :
                 HasValue(last, v) => fn_out = << "returns", v >>
            /\ (\A v \in OrderValues \ {""} : ~ HasValue(last, v))
                 => fn_out = << "ValueError" >>

\* an earlier tag carried a value, the last one has no value attribute
C31_Witness ==
    /\ CalledExtract
    /\ fn_arg = << TagOrd1, TagNoValue >>
    /\ fn_out = << "ValueError" >>

(* ------------------ claims on the polling loops, continued ------------- *)
\* some open window shows the confirmation page
ConfirmationOpen ==
    SessionUp /\ \E h \in Range(handles) : ContainsOrdrRst(wurl[h])

\* C32, for the calls at whose end a window that would have been found is
\* open: wait_for_payment_window raises its timeout, and await_order_result
\* returns none, only after the for loop over the session's windows has run
\* at least once in that call (idx is 0 until it has).
C32_PollsAtLeastOnce ==
    /\ [][ (pc = "pw_while" /\ pc' = "order_gate"
              /\ \E h \in AllHandles : SteadyMatch(h)) => idx > 0 ]_vars
    /\ [][ (pc = "or_while" /\ pc' = "or_restore" /\ detected_url = None
              /\ ConfirmationOpen) => idx > 0 ]_vars

\* the timers that are armed and have neither fired nor been stopped
PendingTimers == {t \in ScheduleIds : timers[t] = "active"}

\* C33: after any sequence of schedule, cancel and timer-fire actions at most
\* one scheduled invocation is pending, and it is the one the window refers
\* to; a schedule request made while one is pending is rejected and leaves the
\* pending one unchanged; the schedule button is enabled exactly when none is
\* pending and the cancel button exactly when one is; a cancelled invocation
\* never starts a process.
C33_OnePendingInvocation ==
    /\ [](/\ Cardinality(PendingTimers) <= 1
          /\ PendingTimers = IF scheduled_timer = NoTimer THEN {} ELSE {scheduled_timer}
          /\ schedule_button = (scheduled_timer = NoTimer)
          /\ cancel_button = (scheduled_timer # NoTimer)
          /\ \A t \in ScheduleIds : timers[t] = "stopped" => procs[t] = "none")
    /\ [][ /\ scheduled_timer # NoTimer /\ dialog' = "already_pending"
              => UNCHANGED << scheduled_timer, timers, schedule_button, cancel_button, procs >>
           /\ scheduled_timer # NoTimer
              => \A t \in ScheduleIds : timers[t] = "unused" => timers'[t] = "unused"
           /\ \A t \in ScheduleIds : timers[t] = "stopped" => timers'[t] = "stopped" ]_vars

\* the reports in the log view that name a process: its output, its exit code
ProcessReports == {i \in 1..Len(log_view) : log_view[i][1] \in {"output", "exit"}}

\* C34: at most one client process is running at any time: while a started
\* process has not finished no second process is started and the tracked
\* process reference is not overwritten, so the output and the exit code of
\* each process are reported from that same process.
C34_OneClientProcess ==
    /\ [](/\ Cardinality({p \in ScheduleIds : Running(p)}) <= 1
          /\ \A i \in ProcessReports : log_view[i][2] = log_view[i][3])
    /\ [][ (process # NoProcess /\ Running(process) /\ process' # process)
              => procs'[process] \notin {"running", "talked"} ]_vars
====
